---- MODULE Spec2Model ----
(***************************************************************************)
(* Model of plexpy/database.py (Tautulli): the process-wide db_lock and    *)
(* the retry loop of MonitorDatabase.action, MonitorDatabase.upsert, and   *)
(* import_tautulli_db, over an abstract SQLite engine.                     *)
(*                                                                         *)
(* Every caller thread owns its own MonitorDatabase (its own connection);  *)
(* all of them share the module-level db_lock.  A statement executes over  *)
(* an interval (pc = "exec"); its effect on the database happens at the    *)
(* end of the interval.                                                    *)
(***************************************************************************)
EXTENDS Integers, Sequences, FiniteSets, TLC

\* ------------------------------------------------------------------ bounds
NumCallers == 2
Threads == 1..NumCallers
MaxCalls == 2       \* upsert (or delete_rows_from_table) calls per thread
MaxDestRows == 3    \* rows of a live table before an import
MaxSrcId == 3       \* largest id in the imported file
MaxSrcRows == 2     \* rows of a table of the imported file
MaxBackups == 2     \* make_backup calls in one run
MaxTicks == 1       \* seconds that pass in one run
MaxOldFiles == 2    \* backup files in the folder at the start
BACKUP_DAYS == 1    \* plexpy.CONFIG.BACKUP_DAYS
NumValues == 2      \* distinct value fields a caller may pass
Values == 1..NumValues

\* ------------------------------------------------------- program constants
MaxAttempts == 5
SecondsPerDay == 86400

VARIABLES
    PYTHON2,        \* plexpy.PYTHON2: the interpreter the program runs under
    db_lock,        \* threading.Lock(): 0 when free, else the holding thread
    sqlite_writer,  \* the connection holding SQLite's write transaction (0: none)
    pc,             \* each thread's position
    stmt,           \* the query the thread passed to action()
    attempts,       \* action's local `attempts`
    sql_result,     \* action's local `sql_result`: "None" or "cursor"
    res,            \* how the thread's last action() call ended
    lastOut,        \* outcome of the most recent c.execute() of the call
    log             \* the call's c.execute() attempts and time.sleep(1) calls, in order

execVars == <<PYTHON2, db_lock, sqlite_writer, pc, stmt, attempts, sql_result, res, lastOut, log>>

VARIABLES
    keyUnique,      \* schema: the upserted table has a UNIQUE constraint on its key
    rows,           \* the table's rows for the upserted key: their value fields, in rowid order
    total_changes,  \* connection.total_changes of each thread's connection
    upc,            \* each thread's position in upsert
    val,            \* the value fields of the thread's current upsert call
    changes_before, \* upsert's local `changes_before`
    trans_type,     \* upsert's local `trans_type`
    calls,          \* number of upsert calls the thread has made
    reports,        \* what the finished upsert calls returned, in order of completion
    written,        \* the value fields passed to the upsert calls so far
    overlapped,     \* two upsert calls were in progress at the same time
    exhausted       \* some statement of an upsert call used up its 5 attempts

VARIABLES
    dest,           \* the live database: session_history, users, their sqlite_sequence
                    \* entries, and the table temp
    cursor,         \* what the cursor of each thread's last SELECT yields
    import_db,      \* the database file being imported (attached as import_db)
    pre,            \* the live database as it was when the import was called
    method,         \* import_tautulli_db's argument `method`
    backup,         \* import_tautulli_db's argument `backup`
    db_validate,    \* import's local: what validate_database returned
    ipc,            \* the importing thread's position in import_tautulli_db
    session_history_seq,     \* import's local: -2 unassigned, -1 the empty dict {},
                             \* else the dict's 'seq'
    tbl,                     \* import's loop variable `table`, as an index
    table_columns,           \* import's local: the table names, in insertion order
    session_history_columns, \* import's local list
    import_result            \* how import_tautulli_db ended

VARIABLES
    clock,          \* the time, in seconds
    healthy,        \* PRAGMA integrity_check would answer 'ok'
    files,          \* the files of plexpy.CONFIG.BACKUP_DIR
    NOTIFY_QUEUE,   \* plexpy.NOTIFY_QUEUE: the number of on_plexpydbcorrupt entries put
    mb,             \* each thread's make_backup call: its position and its locals
    backups         \* number of make_backup calls made

bakVars == <<clock, healthy, files, NOTIFY_QUEUE, mb, backups>>

VARIABLES
    dr              \* each thread's delete_rows_from_table call: position and locals

delVars == <<dr>>

\* What the engine's execution of a statement can change.
dataVars == <<rows, total_changes, dest, cursor>>
upsVars == <<keyUnique, upc, val, changes_before, trans_type, calls, reports, written,
             overlapped, exhausted>>
impVars == <<import_db, pre, method, backup, db_validate, ipc, session_history_seq, tbl, table_columns,
             session_history_columns, import_result>>

\* ------------------------------------------------------ the engine's errors
E_LOCKED    == [cls |-> "OperationalError", msg |-> "database is locked"]
E_UNABLE    == [cls |-> "OperationalError", msg |-> "unable to open database file"]
E_SYNTAX    == [cls |-> "OperationalError", msg |-> "near \"SELEC\": syntax error"]
E_INTEGRITY == [cls |-> "IntegrityError",   msg |-> "UNIQUE constraint failed"]
E_FULL      == [cls |-> "OperationalError", msg |-> "database or disk is full"]
E_NOTABLE   == [cls |-> "OperationalError", msg |-> "no such table: temp"]
E_ATTRIBUTE == [cls |-> "AttributeError",
                msg |-> "'NoneType' object has no attribute 'fetchall'"]
E_KEY       == [cls |-> "KeyError", msg |-> "seq"]
E_TYPE      == [cls |-> "TypeError",
                msg |-> "argument of type 'OperationalError' is not iterable"]
OK          == [cls |-> "ok", msg |-> ""]
NoOutcome   == [cls |-> "none", msg |-> ""]

\* What the environment can do to one attempt: let the engine run the statement,
\* refuse it with a transient condition, or fail it for good (no space left).
EngineConditions == {"run", "locked", "unable", "full"}

\* `"unable to open database file" in e or "database is locked" in e` (line 339).
\* Under Python 2 an exception is a sequence of its args, so `s in e` compares s
\* with the message; under Python 3 an exception is not iterable and the test
\* itself raises TypeError.
TransientMessages == {"unable to open database file", "database is locked"}

\* The mutant classifies by exception class only.
ClassifyRetryAll(py2, e) ==
    IF e.cls = "OperationalError" THEN "retry" ELSE "raise"

\* The except clauses of action: "retry", "raise" (re-raise e) or "TypeError".
Classify(py2, e) ==
    IF e.cls = "OperationalError"
    THEN IF py2
         THEN IF e.msg \in TransientMessages THEN "retry" ELSE "raise"
         ELSE "TypeError"
    ELSE "raise"

IsTransient(e) == e.cls = "OperationalError" /\ e.msg \in TransientMessages

Returned(v) == [kind |-> "return", value |-> v, exc |-> NoOutcome]
Raised(e)   == [kind |-> "raise", value |-> "", exc |-> e]
NoResult    == [kind |-> "none", value |-> "", exc |-> NoOutcome]

\* ------------------------------------------------- the engine's tables
\* The tables of the schema the import walks, in the order sqlite_master lists
\* them; 'sessions' is the table of live sessions.  session_history rows are
\* [id, reference_id, content], users rows [id, content] with UNIQUE content;
\* both ids are INTEGER PRIMARY KEY AUTOINCREMENT.  A sqlite_sequence entry of
\* -1 is a missing entry; a reference_id or new_id of 0 is NULL.
Tables == <<"session_history", "sessions", "users">>

Importer == 1

Ids(s) == {s[i].id : i \in DOMAIN s}
SetMax(S) == IF S = {} THEN 0 ELSE CHOOSE m \in S : \A x \in S : x <= m
SetMin(S) == IF S = {} THEN 0 ELSE CHOOSE m \in S : \A x \in S : m <= x

\* The rowid an AUTOINCREMENT table gives its next row: one more than the
\* largest of its sqlite_sequence entry and its current rowids.
NextId(seq, s) == SetMax(Ids(s) \cup {seq, 0}) + 1

\* INSERT INTO temp (old_id) SELECT id FROM import_db.session_history:
\* temp.id is a plain INTEGER PRIMARY KEY, one more than the largest there.
RECURSIVE InsertTemp(_, _)
InsertTemp(temp, src) ==
    IF src = <<>> THEN temp
    ELSE InsertTemp(Append(temp, [id |-> SetMax(Ids(temp)) + 1,
                                  old_id |-> Head(src).id,
                                  new_id |-> 0]),
                    Tail(src))

\* UPDATE temp SET new_id = old_id + ?
UpdateTempFromOldId(temp, seq) ==
    [i \in DOMAIN temp |-> [temp[i] EXCEPT !.new_id = temp[i].old_id + seq]]

\* UPDATE temp SET new_id = id + ?
UpdateTemp(temp, seq) == [i \in DOMAIN temp |-> [temp[i] EXCEPT !.new_id = temp[i].id + seq]]

\* INSERT OR IGNORE INTO session_history (reference_id, content)
\*     SELECT reference_id, content FROM import_db.session_history
RECURSIVE CopyHistory(_, _)
CopyHistory(d, src) ==
    IF src = <<>> THEN d
    ELSE LET id == NextId(d.hseq, d.history) IN
         CopyHistory([d EXCEPT !.history = Append(@, [id |-> id,
                                       reference_id |-> Head(src).reference_id,
                                       content |-> Head(src).content]),
                               !.hseq = id],
                     Tail(src))

\* INSERT OR IGNORE INTO users (content) SELECT content FROM import_db.users:
\* a row whose content is there already is ignored, its rowid is used up.
RECURSIVE CopyUsers(_, _)
CopyUsers(d, src) ==
    IF src = <<>> THEN d
    ELSE LET id == NextId(d.useq, d.users) IN
         CopyUsers([d EXCEPT !.users = IF \E i \in DOMAIN @ : @[i].content = Head(src).content
                                       THEN @
                                       ELSE Append(@, [id |-> id, content |-> Head(src).content]),
                             !.useq = id],
                   Tail(src))

\* (SELECT new_id FROM temp WHERE old_id = reference_id): the first match, or NULL.
NewIdOf(temp, ref) ==
    LET M == {i \in DOMAIN temp : temp[i].old_id = ref} IN
    IF M = {} THEN 0 ELSE temp[SetMin(M)].new_id

\* UPDATE session_history SET reference_id = (SELECT new_id ...) WHERE id > ?
Reindex(history, temp, seq) ==
    [i \in DOMAIN history |->
        IF history[i].id > seq
        THEN [history[i] EXCEPT !.reference_id = NewIdOf(temp, @)]
        ELSE history[i]]

\* SELECT MIN(id) FROM <table> GROUP BY <the columns other than id, reference_id>
MinIds(s) ==
    {s[i].id : i \in {j \in DOMAIN s :
                        \A k \in DOMAIN s : s[k].content = s[j].content => s[j].id <= s[k].id}}

NewIds(temp) == {temp[i].new_id : i \in DOMAIN temp} \ {0}

\* DELETE FROM temp WHERE new_id IN (SELECT MIN(id) FROM session_history GROUP BY ...)
KeepFirst(temp, history) ==
    LET K == MinIds(history)
        Keep(r) == r.new_id \notin K
    IN SelectSeq(temp, Keep)

\* DELETE FROM session_history WHERE id IN (SELECT new_id FROM temp)
DedupHistory(history, temp) ==
    LET D == NewIds(temp)
        Keep(r) == r.id \notin D
    IN SelectSeq(history, Keep)

\* DELETE FROM users WHERE id NOT IN (SELECT MIN(id) FROM users GROUP BY content)
DedupUsers(users) ==
    LET K == MinIds(users)
        Keep(r) == r.id \in K
    IN SelectSeq(users, Keep)

\* ------------------------------------------------ the import's statements
Q_SEQ         == "SELECT seq FROM sqlite_sequence WHERE name = 'session_history'"
Q_CREATE_TEMP == "CREATE TABLE IF NOT EXISTS temp (id INTEGER PRIMARY KEY, old_id, new_id)"
Q_INSERT_TEMP == "INSERT INTO temp (old_id) SELECT id FROM import_db.session_history"
Q_UPDATE_TEMP == "UPDATE temp SET new_id = id + ?"
Q_TABLES      == "SELECT name FROM import_db.sqlite_master"
Q_REINDEX     == "UPDATE session_history SET reference_id = (SELECT new_id FROM temp ...) WHERE id > ?"
Q_KEEP        == "DELETE FROM temp WHERE new_id IN (SELECT MIN(id) FROM session_history ...)"
Q_DROP_TEMP   == "DROP TABLE temp"
Q_VACUUM      == "VACUUM"

DeleteFrom(table) ==
    IF table = "session_history" THEN "DELETE FROM session_history"
    ELSE "DELETE FROM users"
DeleteSeq(table) ==
    IF table = "session_history" THEN "DELETE FROM sqlite_sequence WHERE name = 'session_history'"
    ELSE "DELETE FROM sqlite_sequence WHERE name = 'users'"
TableInfo(table) ==
    IF table = "session_history" THEN "PRAGMA import_db.table_info(session_history)"
    ELSE "PRAGMA import_db.table_info(users)"
InsertOrIgnore(table) ==
    IF table = "session_history" THEN "INSERT OR IGNORE INTO session_history ..."
    ELSE "INSERT OR IGNORE INTO users ..."
\* Lines 139-143: session_history is one of session_history_tables, users is not.
Dedup(table) ==
    IF table = "session_history"
    THEN "DELETE FROM session_history WHERE id IN (SELECT new_id FROM temp)"
    ELSE "DELETE FROM users WHERE id NOT IN (SELECT MIN(id) FROM users ...)"

\* delete_rows_from_table's query (line 189), its ? bound to row_ids.
DeleteIn(table) ==
    IF table = "session_history" THEN "DELETE FROM session_history WHERE id IN (?,...)"
    ELSE "DELETE FROM users WHERE id IN (?,...)"

\* The database after DELETE FROM table WHERE id IN (row_ids).
DeleteRows(d, table, row_ids) ==
    LET ids == {row_ids[i] : i \in DOMAIN row_ids}
        Keep(r) == r.id \notin ids
    IN IF table = "session_history"
       THEN [d EXCEPT !.history = SelectSeq(@, Keep)]
       ELSE [d EXCEPT !.users = SelectSeq(@, Keep)]

\* A reader's query over the live tables.
Q_READ == "SELECT * FROM session_history, users"

ImportSelects == {Q_SEQ, Q_TABLES, TableInfo("session_history"), TableInfo("users")}
ImportWrites ==
    {Q_CREATE_TEMP, Q_INSERT_TEMP, Q_UPDATE_TEMP, Q_REINDEX, Q_KEEP, Q_DROP_TEMP, Q_VACUUM}
    \cup {DeleteFrom(tb) : tb \in {"session_history", "users"}}
    \cup {DeleteSeq(tb) : tb \in {"session_history", "users"}}
    \cup {InsertOrIgnore(tb) : tb \in {"session_history", "users"}}
    \cup {Dedup(tb) : tb \in {"session_history", "users"}}
UsesTemp == {Q_INSERT_TEMP, Q_UPDATE_TEMP, Q_REINDEX, Q_KEEP, Q_DROP_TEMP,
             Dedup("session_history")}

\* The database after statement q of the import, with ? bound to arg.
Run(q, d, src, arg) ==
    CASE q = Q_CREATE_TEMP -> [d EXCEPT !.tempExists = TRUE]
      [] q = Q_INSERT_TEMP -> [d EXCEPT !.temp = InsertTemp(@, src.history)]
      [] q = Q_UPDATE_TEMP -> [d EXCEPT !.temp = UpdateTemp(@, arg)]
      [] q = DeleteFrom("session_history") -> [d EXCEPT !.history = <<>>]
      [] q = DeleteFrom("users") -> [d EXCEPT !.users = <<>>]
      [] q = DeleteSeq("session_history") -> [d EXCEPT !.hseq = -1]
      [] q = DeleteSeq("users") -> [d EXCEPT !.useq = -1]
      [] q = InsertOrIgnore("session_history") -> CopyHistory(d, src.history)
      [] q = InsertOrIgnore("users") -> CopyUsers(d, src.users)
      [] q = Q_REINDEX -> [d EXCEPT !.history = Reindex(@, d.temp, arg)]
      [] q = Q_KEEP -> [d EXCEPT !.temp = KeepFirst(@, d.history)]
      [] q = Dedup("session_history") -> [d EXCEPT !.history = DedupHistory(@, d.temp)]
      [] q = Dedup("users") -> [d EXCEPT !.users = DedupUsers(@)]
      [] q = Q_DROP_TEMP -> [d EXCEPT !.tempExists = FALSE, !.temp = <<>>]
      [] OTHER -> d

\* import_tautulli_db is between its first statement and its end.
ImportRunning == ipc \notin {"idle", "done"}

EmptyDb == [history |-> <<>>, hseq |-> -1, users |-> <<>>, useq |-> -1,
            tempExists |-> FALSE, temp |-> <<>>]

\* What a cursor yields: the seq of the sqlite_sequence row it selected (-1: no
\* row), or the live tables it read and whether an import was then under way,
\* or the answer of PRAGMA integrity_check.
NoCursor == [seq |-> -2, db |-> EmptyDb, during |-> FALSE, integrity_check |-> ""]

\* integrity_check's query (line 155).
Q_INTEGRITY == "PRAGMA integrity_check"

\* ------------------------------------------------------------- statements
\* Queries an ordinary caller passes to action(): no query, a read, a write,
\* a statement SQLite cannot parse, a write that breaks a constraint.
PlainStatements == {"None", "SELECT", "WRITE", "BAD_SQL", "DUP_INSERT"}

\* upsert's two statements (lines 378-379 and 385-388).
UpsertStatements == {"UPDATE", "INSERT"}

DeleteStatements == {DeleteIn("session_history"), DeleteIn("users")}

IsWrite(q) ==
    q \in {"WRITE", "DUP_INSERT"} \cup UpsertStatements \cup ImportWrites \cup DeleteStatements

\* What the engine answers when it runs thread t's statement.
StmtOutcome(t) ==
    CASE stmt[t] = "BAD_SQL"    -> E_SYNTAX
      [] stmt[t] = "DUP_INSERT" -> E_INTEGRITY
      [] stmt[t] = "INSERT"     -> IF keyUnique /\ Len(rows) > 0 THEN E_INTEGRITY ELSE OK
      [] stmt[t] \in UsesTemp   -> IF dest.tempExists THEN OK ELSE E_NOTABLE
      [] OTHER                  -> OK

\* The mutant's UPDATE leaves connection.total_changes alone.
StmtEffectUncounted(t) ==
    CASE stmt[t] = "UPDATE" ->
            /\ rows' = [i \in DOMAIN rows |-> val[t]]
            /\ UNCHANGED <<total_changes, dest, cursor>>
      [] stmt[t] = "INSERT" ->
            /\ rows' = Append(rows, val[t])
            /\ total_changes' = [total_changes EXCEPT ![t] = @ + 1]
            /\ UNCHANGED <<dest, cursor>>
      [] OTHER -> UNCHANGED dataVars

\* What a statement that ran does to the database and to the connection.
\* UPDATE ... WHERE <key> rewrites every row of the key and counts each in
\* total_changes (also when the values are the same); INSERT adds one row.
StmtEffect(t) ==
    CASE stmt[t] = "UPDATE" ->
            /\ rows' = [i \in DOMAIN rows |-> val[t]]
            /\ total_changes' = [total_changes EXCEPT ![t] = @ + Len(rows)]
            /\ UNCHANGED <<dest, cursor>>
      [] stmt[t] = "INSERT" ->
            /\ rows' = Append(rows, val[t])
            /\ total_changes' = [total_changes EXCEPT ![t] = @ + 1]
            /\ UNCHANGED <<dest, cursor>>
      [] stmt[t] \in ImportWrites ->
            /\ dest' = Run(stmt[t], dest, import_db, session_history_seq)
            /\ UNCHANGED <<rows, total_changes, cursor>>
      [] stmt[t] = Q_SEQ ->
            /\ cursor' = [cursor EXCEPT ![t] = [NoCursor EXCEPT !.seq = dest.hseq]]
            /\ UNCHANGED <<rows, total_changes, dest>>
      [] stmt[t] = Q_READ ->
            /\ cursor' = [cursor EXCEPT ![t] =
                              [NoCursor EXCEPT !.db = dest, !.during = ImportRunning]]
            /\ UNCHANGED <<rows, total_changes, dest>>
      [] stmt[t] \in DeleteStatements ->
            /\ dest' = DeleteRows(dest, dr[t].table, dr[t].row_ids)
            /\ UNCHANGED <<rows, total_changes, cursor>>
      [] stmt[t] = Q_INTEGRITY ->
            /\ cursor' = [cursor EXCEPT ![t] =
                              [NoCursor EXCEPT !.integrity_check =
                                   IF healthy THEN "ok" ELSE "*** in database main ***"]]
            /\ UNCHANGED <<rows, total_changes, dest>>
      [] OTHER -> UNCHANGED dataVars

\* One c.execute(query): refused by the environment, refused because another
\* connection holds the write transaction (the 20 s busy timeout expires), or run.
Engine(t, cond) ==
    CASE cond = "locked" -> E_LOCKED
      [] cond = "unable" -> E_UNABLE
      [] cond = "full"   -> E_FULL
      [] OTHER -> IF IsWrite(stmt[t]) /\ sqlite_writer \notin {0, t}
                  THEN E_LOCKED
                  ELSE StmtOutcome(t)

\* ------------------------------------------------- MonitorDatabase.action
\* action(query, args): `if query is None: return`, else on to `with db_lock`.
ActionCall(t, q) ==
    /\ stmt' = [stmt EXCEPT ![t] = q]
    /\ log' = [log EXCEPT ![t] = <<>>]
    /\ lastOut' = [lastOut EXCEPT ![t] = NoOutcome]
    /\ IF q = "None"
       THEN /\ pc' = [pc EXCEPT ![t] = "done"]
            /\ res' = [res EXCEPT ![t] = Returned("None")]
       ELSE /\ pc' = [pc EXCEPT ![t] = "acquire"]
            /\ res' = [res EXCEPT ![t] = NoResult]
    /\ UNCHANGED <<PYTHON2, db_lock, sqlite_writer, attempts, sql_result>>
    /\ UNCHANGED dataVars

\* The mutant enters the block without waiting for the lock to be free.
AcquireUnguarded(t) ==
    /\ pc[t] = "acquire"
    /\ db_lock' = t
    /\ sql_result' = [sql_result EXCEPT ![t] = "None"]
    /\ attempts' = [attempts EXCEPT ![t] = 0]
    /\ pc' = [pc EXCEPT ![t] = "loop"]
    /\ UNCHANGED <<PYTHON2, sqlite_writer, stmt, res, lastOut, log>>
    /\ UNCHANGED dataVars

\* `with db_lock:` then `sql_result = None; attempts = 0`.
Acquire(t) ==
    /\ pc[t] = "acquire"
    /\ db_lock = 0
    /\ db_lock' = t
    /\ sql_result' = [sql_result EXCEPT ![t] = "None"]
    /\ attempts' = [attempts EXCEPT ![t] = 0]
    /\ pc' = [pc EXCEPT ![t] = "loop"]
    /\ UNCHANGED <<PYTHON2, sqlite_writer, stmt, res, lastOut, log>>
    /\ UNCHANGED dataVars

\* `while attempts < 5:` holds: c.execute(query) starts.
ExecBegin(t) ==
    /\ pc[t] = "loop"
    /\ attempts[t] < MaxAttempts
    /\ pc' = [pc EXCEPT ![t] = "exec"]
    /\ UNCHANGED <<PYTHON2, db_lock, sqlite_writer, stmt, attempts, sql_result, res,
                   lastOut, log>>
    /\ UNCHANGED dataVars

\* The mutant leaves the block with the lock still held.
LeaveHolding(t, r) ==
    /\ db_lock' = db_lock
    /\ res' = [res EXCEPT ![t] = r]
    /\ pc' = [pc EXCEPT ![t] = "done"]
    /\ stmt' = [stmt EXCEPT ![t] = "None"]
    /\ attempts' = [attempts EXCEPT ![t] = 0]
    /\ sql_result' = [sql_result EXCEPT ![t] = "None"]

\* Leaving `with db_lock:` by return or by exception: the lock is released and
\* the call's locals (query, attempts, sql_result) are gone.
Leave(t, r) ==
    /\ db_lock' = 0
    /\ res' = [res EXCEPT ![t] = r]
    /\ pc' = [pc EXCEPT ![t] = "done"]
    /\ stmt' = [stmt EXCEPT ![t] = "None"]
    /\ attempts' = [attempts EXCEPT ![t] = 0]
    /\ sql_result' = [sql_result EXCEPT ![t] = "None"]

\* `while attempts < 5:` fails: `return sql_result`.
LoopExhausted(t) ==
    /\ pc[t] = "loop"
    /\ attempts[t] >= MaxAttempts
    /\ Leave(t, Returned(sql_result[t]))
    /\ UNCHANGED <<PYTHON2, sqlite_writer, lastOut, log>>
    /\ UNCHANGED dataVars

\* c.execute(query) ends inside `with self.connection as c:`, which commits on
\* success and rolls back on an exception: either way the connection's open
\* transaction, if it had one, is over.
ExecEnd(t) ==
    /\ pc[t] = "exec"
    /\ \E cond \in EngineConditions :
         LET out == Engine(t, cond) IN
         /\ lastOut' = [lastOut EXCEPT ![t] = out]
         /\ log' = [log EXCEPT ![t] = Append(@, "attempt")]
         /\ sqlite_writer' = IF sqlite_writer = t THEN 0 ELSE sqlite_writer
         /\ IF out = OK THEN StmtEffect(t) ELSE UNCHANGED dataVars
         /\ CASE out = OK ->
                   \* `sql_result = c.execute(query)`, `break`, `return sql_result`
                   Leave(t, Returned("cursor"))
              [] out # OK /\ Classify(PYTHON2, out) = "retry" ->
                   \* `attempts += 1`, then time.sleep(1) starts
                   /\ attempts' = [attempts EXCEPT ![t] = @ + 1]
                   /\ pc' = [pc EXCEPT ![t] = "sleep"]
                   /\ UNCHANGED <<db_lock, stmt, sql_result, res>>
              [] out # OK /\ Classify(PYTHON2, out) = "raise" ->
                   Leave(t, Raised(out))
              [] OTHER ->
                   \* the `in e` test raised TypeError inside the handler
                   Leave(t, Raised(E_TYPE))
    /\ UNCHANGED PYTHON2

\* time.sleep(1) ends, still inside `with db_lock:`.
Sleep(t) ==
    /\ pc[t] = "sleep"
    /\ log' = [log EXCEPT ![t] = Append(@, "sleep")]
    /\ pc' = [pc EXCEPT ![t] = "loop"]
    /\ UNCHANGED <<PYTHON2, db_lock, sqlite_writer, stmt, attempts, sql_result, res,
                   lastOut>>
    /\ UNCHANGED dataVars

\* ---------------------------------------------------- ordinary callers
\* A caller (select, delete, clear_table, ...) passes one query to action().
Query(t) ==
    /\ pc[t] \in {"idle", "done"}
    /\ \E q \in PlainStatements : ActionCall(t, q)

\* ------------------------------ statements issued past action(), unlocked
\* make_backup: db.connection.execute('BEGIN IMMEDIATE') starts (no db_lock);
\* import_tautulli_db line 75 issues the same statement the same way.
BeginImmediate(t) ==
    /\ pc[t] \in {"idle", "done"}
    /\ pc' = [pc EXCEPT ![t] = "begin_exec"]
    /\ stmt' = [stmt EXCEPT ![t] = "BEGIN IMMEDIATE"]
    /\ log' = [log EXCEPT ![t] = <<>>]
    /\ lastOut' = [lastOut EXCEPT ![t] = NoOutcome]
    /\ res' = [res EXCEPT ![t] = NoResult]
    /\ UNCHANGED <<PYTHON2, db_lock, sqlite_writer, attempts, sql_result>>
    /\ UNCHANGED dataVars

\* BEGIN IMMEDIATE ends: the connection now holds the write transaction, or
\* another connection held it and the statement raises to make_backup's caller.
BeginImmediateEnd(t) ==
    /\ pc[t] = "begin_exec"
    /\ IF sqlite_writer = 0
       THEN /\ sqlite_writer' = t
            /\ pc' = [pc EXCEPT ![t] = "copy"]
            /\ UNCHANGED res
       ELSE /\ res' = [res EXCEPT ![t] = Raised(E_LOCKED)]
            /\ pc' = [pc EXCEPT ![t] = "done"]
            /\ UNCHANGED sqlite_writer
    /\ stmt' = [stmt EXCEPT ![t] = IF sqlite_writer = 0 THEN @ ELSE "None"]
    /\ UNCHANGED <<PYTHON2, db_lock, attempts, sql_result, lastOut, log>>
    /\ UNCHANGED dataVars

\* shutil.copyfile(db_filename(), backup_file_fp); db.connection.rollback() starts.
CopyFile(t) ==
    /\ pc[t] = "copy"
    /\ pc' = [pc EXCEPT ![t] = "rollback_exec"]
    /\ stmt' = [stmt EXCEPT ![t] = "ROLLBACK"]
    /\ UNCHANGED <<PYTHON2, db_lock, sqlite_writer, attempts, sql_result, res, lastOut,
                   log>>
    /\ UNCHANGED dataVars

\* db.connection.rollback() ends: the write transaction is released.
Rollback(t) ==
    /\ pc[t] = "rollback_exec"
    /\ sqlite_writer' = IF sqlite_writer = t THEN 0 ELSE sqlite_writer
    /\ res' = [res EXCEPT ![t] = Returned("None")]
    /\ pc' = [pc EXCEPT ![t] = "done"]
    /\ stmt' = [stmt EXCEPT ![t] = "None"]
    /\ UNCHANGED <<PYTHON2, db_lock, attempts, sql_result, lastOut, log>>
    /\ UNCHANGED dataVars

\* ------------------------------------------------------------ make_backup
\* A backup file's name, 'tautulli.backup-{stamp}{corrupt}{.sched}.db', by its
\* parts: arrow.now().format('YYYYMMDDHHmmss') is the time to the second.
BackupName(stamp, corrupt, scheduler) ==
    [stamp |-> stamp, corrupt |-> corrupt, sched |-> scheduler]

NoName == BackupName(0, "", FALSE)

\* f.endswith('.sched.db') (line 275).
EndsWithSchedDb(name) == name.sched

\* os.listdir(backup_folder)
Listing(fs) == {f.name : f \in fs}

\* shutil.copyfile(src, dst): dst is created, or replaced if it is there.
CopyTo(fs, name, mtime, content) ==
    {f \in fs : f.name # name} \cup {[name |-> name, mtime |-> mtime, content |-> content]}

E_IO == [cls |-> "IOError", msg |-> "No space left on device"]
E_OS == [cls |-> "OSError", msg |-> "No such file or directory"]

NoFrame ==
    [at |-> "idle", cleanup |-> FALSE, scheduler |-> FALSE, integrity |-> FALSE,
     backup_file |-> NoName, copy_from |-> EmptyDb, now |-> 0,
     db_files |-> {}, walked |-> {}, removed |-> {}, failed |-> {},
     before |-> [names |-> {}, queued |-> 0],
     result |-> NoResult]

\* make_backup(cleanup, scheduler) up to line 247's integrity_check(), whose
\* select_single passes the PRAGMA to action().
BackupCall(t, cl, sc) ==
    /\ pc[t] \in {"idle", "done"}
    /\ mb[t].at \in {"idle", "done"}
    /\ backups < MaxBackups
    /\ backups' = backups + 1
    /\ mb' = [mb EXCEPT ![t] = [NoFrame EXCEPT !.at = "integrity",
                                               !.cleanup = cl,
                                               !.scheduler = sc,
                                               !.before = [names |-> Listing(files),
                                                           queued |-> NOTIFY_QUEUE]]]
    /\ ActionCall(t, Q_INTEGRITY)
    /\ UNCHANGED <<clock, healthy, files, NOTIFY_QUEUE>>

\* An exception leaves make_backup (nothing in it catches one outside the sweep).
BackupRaise(t, e) ==
    /\ mb' = [mb EXCEPT ![t] = [@ EXCEPT !.at = "done", !.result = Raised(e)]]
    /\ UNCHANGED <<clock, healthy, files, NOTIFY_QUEUE, backups>>

\* integrity_check's action() call raised, or returned None to select_single,
\* whose `.fetchone()` then raises AttributeError.
BackupAbort(t) ==
    /\ mb[t].at = "integrity"
    /\ pc[t] = "done"
    /\ \/ res[t].kind = "raise" /\ BackupRaise(t, res[t].exc)
       \/ res[t] = Returned("None") /\ BackupRaise(t, E_ATTRIBUTE)
    /\ UNCHANGED <<execVars, dataVars>>

\* Lines 247-266: the answer is compared with 'ok', a failed check puts the
\* notification, the file is named, and BEGIN IMMEDIATE starts.
BackupAfterIntegrity(t) ==
    /\ mb[t].at = "integrity"
    /\ pc[t] = "done"
    /\ res[t] = Returned("cursor")
    /\ LET integrity == (cursor[t].integrity_check = "ok")
           corrupt == IF integrity THEN "" ELSE ".corrupt"
       IN /\ NOTIFY_QUEUE' = IF integrity THEN NOTIFY_QUEUE ELSE NOTIFY_QUEUE + 1
          /\ mb' = [mb EXCEPT ![t] =
                       [@ EXCEPT !.at = "begin",
                                 !.integrity = integrity,
                                 !.backup_file = BackupName(clock, corrupt, mb[t].scheduler)]]
    /\ BeginImmediate(t)
    /\ UNCHANGED <<clock, healthy, files, backups>>

\* Line 266 ends: the copy starts, or the statement raised.
BackupBeginEnd(t) ==
    /\ mb[t].at = "begin"
    /\ BeginImmediateEnd(t)
    /\ mb' = [mb EXCEPT ![t] =
                 IF sqlite_writer = 0
                 THEN [@ EXCEPT !.at = "copy", !.copy_from = dest]
                 ELSE [@ EXCEPT !.at = "done", !.result = Raised(E_LOCKED)]]
    /\ UNCHANGED <<clock, healthy, files, NOTIFY_QUEUE, backups>>

\* Line 267 ends: the file is in the folder; rollback starts.
BackupCopy(t) ==
    /\ mb[t].at = "copy"
    /\ CopyFile(t)
    /\ files' = CopyTo(files, mb[t].backup_file, clock,
                       [first |-> mb[t].copy_from, last |-> dest])
    /\ mb' = [mb EXCEPT ![t] = [@ EXCEPT !.at = "rollback", !.copy_from = EmptyDb]]
    /\ UNCHANGED <<clock, healthy, NOTIFY_QUEUE, backups>>

\* Line 267 raises (no space left): the file is missing or cut short, and
\* make_backup is left with its connection, whose transaction goes with it.
BackupCopyFails(t) ==
    /\ mb[t].at = "copy"
    /\ pc[t] = "copy"
    /\ \/ UNCHANGED files
       \/ files' = CopyTo(files, mb[t].backup_file, clock,
                          [first |-> mb[t].copy_from, last |-> EmptyDb])
    /\ mb' = [mb EXCEPT ![t] = [@ EXCEPT !.at = "done", !.copy_from = EmptyDb,
                                         !.result = Raised(E_IO)]]
    /\ sqlite_writer' = IF sqlite_writer = t THEN 0 ELSE sqlite_writer
    /\ pc' = [pc EXCEPT ![t] = "done"]
    /\ res' = [res EXCEPT ![t] = Raised(E_IO)]
    /\ stmt' = [stmt EXCEPT ![t] = "None"]
    /\ UNCHANGED <<PYTHON2, db_lock, attempts, sql_result, lastOut, log>>
    /\ UNCHANGED dataVars
    /\ UNCHANGED <<clock, healthy, NOTIFY_QUEUE, backups>>

\* Line 268 ends; lines 271-275: with cleanup and a sound database the time is
\* read and the folder is walked for the names ending in '.sched.db'.
BackupRollbackEnd(t) ==
    /\ mb[t].at = "rollback"
    /\ Rollback(t)
    /\ mb' = [mb EXCEPT ![t] =
                 IF mb[t].cleanup /\ mb[t].integrity
                 THEN LET db_files == {n \in Listing(files) : EndsWithSchedDb(n)} IN
                      [@ EXCEPT !.at = "sweep", !.now = clock,
                                !.db_files = db_files, !.walked = db_files]
                 ELSE [@ EXCEPT !.at = "listing"]]
    /\ UNCHANGED <<clock, healthy, files, NOTIFY_QUEUE, backups>>

\* Line 277 with <= in place of <.
ExpiredInclusive(mtime, now) == mtime <= now - BACKUP_DAYS * SecondsPerDay

\* Line 277: os.stat(file_).st_mtime < now - BACKUP_DAYS * 86400.
Expired(mtime, now) == mtime < now - BACKUP_DAYS * SecondsPerDay

\* Lines 276-281, one file of db_files: os.stat (an OSError of which leaves
\* make_backup), the comparison, and os.remove, whose OSError is logged.
BackupSweep(t) ==
    /\ mb[t].at = "sweep"
    /\ \E n \in mb[t].db_files :
         IF n \notin Listing(files)
         THEN /\ mb' = [mb EXCEPT ![t] = [@ EXCEPT !.at = "done", !.result = Raised(E_OS)]]
              /\ UNCHANGED files
         ELSE LET file_ == CHOOSE f \in files : f.name = n IN
              IF Expired(file_.mtime, mb[t].now)
              THEN \/ /\ files' = files \ {file_}
                      /\ mb' = [mb EXCEPT ![t] = [@ EXCEPT !.db_files = @ \ {n},
                                                           !.removed = @ \cup {n}]]
                   \/ /\ UNCHANGED files
                      /\ mb' = [mb EXCEPT ![t] = [@ EXCEPT !.db_files = @ \ {n},
                                                           !.failed = @ \cup {n}]]
              ELSE /\ UNCHANGED files
                   /\ mb' = [mb EXCEPT ![t] = [@ EXCEPT !.db_files = @ \ {n}]]
    /\ UNCHANGED <<clock, healthy, NOTIFY_QUEUE, backups>>
    /\ UNCHANGED <<execVars, dataVars>>

\* Lines 283-288: `backup_file in os.listdir(backup_folder)` is returned.
BackupReturn(t) ==
    /\ \/ mb[t].at = "listing"
       \/ mb[t].at = "sweep" /\ mb[t].db_files = {}
    /\ mb' = [mb EXCEPT ![t] =
                 [@ EXCEPT !.at = "done",
                           !.result = Returned(IF mb[t].backup_file \in Listing(files)
                                              THEN "True" ELSE "False")]]
    /\ UNCHANGED <<clock, healthy, files, NOTIFY_QUEUE, backups>>
    /\ UNCHANGED <<execVars, dataVars>>

\* A second passes.
Tick ==
    /\ clock < (BACKUP_DAYS + 1) * SecondsPerDay + MaxTicks
    /\ clock' = clock + 1
    /\ UNCHANGED <<healthy, files, NOTIFY_QUEUE, mb, backups>>
    /\ UNCHANGED <<execVars, dataVars>>

\* ------------------------------------------------- delete_rows_from_table
\* The ids of S in increasing order.
SortedSeq(S) ==
    CHOOSE s \in [1..Cardinality(S) -> S] :
        \A i, j \in 1..Cardinality(S) : i < j => s[i] < s[j]

\* The id lists a caller passes: up to two ids, in the table or not.
IdLists == {SortedSeq(S) : S \in {T \in SUBSET (1..(MaxDestRows + 1)) : Cardinality(T) <= 2}}

NoDelete ==
    [at |-> "idle", table |-> "", row_ids |-> <<>>, issued |-> FALSE, during |-> FALSE,
     before |-> EmptyDb, calls |-> 0, result |-> NoResult]

E_NAME == [cls |-> "NameError", msg |-> "name 'cast_to_int' is not defined"]

\* delete_rows_from_table(table, row_ids), row_ids given as a list or as text
\* ('1,2'): lines 184-193.  Text is split and cast, by cast_to_int, a name the
\* module has only on Python 3 (line 32); an empty row_ids returns True.
DeleteCall(t, table, ids, as_text) ==
    /\ pc[t] \in {"idle", "done"}
    /\ dr[t].at \in {"idle", "done"}
    /\ dr[t].calls < MaxCalls
    /\   LET frame == [NoDelete EXCEPT !.table = table, !.row_ids = ids,
                                       !.calls = dr[t].calls + 1,
                                       !.before = dest,
                                       !.during = (sqlite_writer \notin {0, t})]
         IN IF ids # <<>> /\ as_text /\ PYTHON2
            THEN /\ dr' = [dr EXCEPT ![t] = [frame EXCEPT !.at = "done",
                                                          !.result = Raised(E_NAME)]]
                 /\ UNCHANGED <<execVars, dataVars>>
            ELSE IF ids # <<>>
            THEN /\ dr' = [dr EXCEPT ![t] = [frame EXCEPT !.at = "delete", !.issued = TRUE]]
                 /\ ActionCall(t, DeleteIn(table))
            ELSE /\ dr' = [dr EXCEPT ![t] = [frame EXCEPT !.at = "done",
                                                          !.result = Returned("True")]]
                 /\ UNCHANGED <<execVars, dataVars>>

\* Lines 193-197: action() returned (True) or raised (`except Exception`: False).
DeleteReturn(t) ==
    /\ dr[t].at = "delete"
    /\ pc[t] = "done"
    /\ dr' = [dr EXCEPT ![t] =
                 [@ EXCEPT !.at = "done",
                           !.result = Returned(IF res[t].kind = "raise"
                                               THEN "False" ELSE "True")]]
    /\ UNCHANGED <<execVars, dataVars>>

\* ------------------------------------------------- MonitorDatabase.upsert
UpsertBusy(t) == upc[t] \in {"update", "insert"}

\* upsert(table_name, value_dict, key_dict) up to its UPDATE:
\* `trans_type = 'update'`, `changes_before = self.connection.total_changes`,
\* `self.action(update_query, ...)`.
UpsertCall(t) ==
    /\ pc[t] \in {"idle", "done"}
    /\ ~UpsertBusy(t)
    /\ calls[t] < MaxCalls
    /\ \E v \in Values :
         /\ val' = [val EXCEPT ![t] = v]
         /\ written' = written \cup {v}
    /\ calls' = [calls EXCEPT ![t] = @ + 1]
    /\ trans_type' = [trans_type EXCEPT ![t] = "update"]
    /\ changes_before' = [changes_before EXCEPT ![t] = total_changes[t]]
    /\ overlapped' = (overlapped \/ \E u \in Threads \ {t} : UpsertBusy(u))
    /\ upc' = [upc EXCEPT ![t] = "update"]
    /\ ActionCall(t, "UPDATE")
    /\ UNCHANGED <<keyUnique, reports, exhausted>>

\* The UPDATE's action() call is over.  An exception leaves upsert; otherwise
\* `if self.connection.total_changes == changes_before:` decides between
\* returning 'update' and `trans_type = 'insert'` with the fallback INSERT.
UpsertAfterUpdate(t) ==
    /\ upc[t] = "update"
    /\ pc[t] = "done"
    /\ exhausted' = (exhausted \/ res[t] = Returned("None"))
    /\ IF res[t].kind = "raise"
       THEN /\ upc' = [upc EXCEPT ![t] = "raised"]
            /\ reports' = Append(reports, "raise")
            /\ UNCHANGED <<execVars, dataVars, trans_type>>
       ELSE IF total_changes[t] = changes_before[t]
       THEN /\ trans_type' = [trans_type EXCEPT ![t] = "insert"]
            /\ upc' = [upc EXCEPT ![t] = "insert"]
            /\ ActionCall(t, "INSERT")
            /\ UNCHANGED reports
       ELSE /\ upc' = [upc EXCEPT ![t] = "returned"]
            /\ reports' = Append(reports, trans_type[t])
            /\ UNCHANGED <<execVars, dataVars, trans_type>>
    /\ UNCHANGED <<keyUnique, val, changes_before, calls, written, overlapped>>

\* The INSERT's action() call is over: `except sqlite3.IntegrityError:` logs
\* and goes on to `return trans_type`; any other exception leaves upsert.
UpsertAfterInsert(t) ==
    /\ upc[t] = "insert"
    /\ pc[t] = "done"
    /\ exhausted' = (exhausted \/ res[t] = Returned("None"))
    /\ IF res[t].kind = "raise" /\ res[t].exc.cls # "IntegrityError"
       THEN /\ upc' = [upc EXCEPT ![t] = "raised"]
            /\ reports' = Append(reports, "raise")
       ELSE /\ upc' = [upc EXCEPT ![t] = "returned"]
            /\ reports' = Append(reports, trans_type[t])
    /\ UNCHANGED <<execVars, dataVars, keyUnique, val, changes_before, trans_type, calls,
                   written, overlapped>>

\* ------------------------------------------------- import_tautulli_db
Methods == {"merge", "overwrite", "replace"}

\* A statement issued on the connection directly, past action() and db_lock.
DirectCall(t, q) ==
    /\ pc' = [pc EXCEPT ![t] = "direct"]
    /\ stmt' = [stmt EXCEPT ![t] = q]
    /\ log' = [log EXCEPT ![t] = <<>>]
    /\ lastOut' = [lastOut EXCEPT ![t] = NoOutcome]
    /\ res' = [res EXCEPT ![t] = NoResult]
    /\ UNCHANGED <<PYTHON2, db_lock, sqlite_writer, attempts, sql_result>>
    /\ UNCHANGED dataVars

\* The positions at which import waits for select() or select_single().
SelectSteps == {"seq", "tables", "columns"}

\* The action() call import made at position p returned, and, where the
\* caller is select/select_single, returned a cursor to fetch from.
Resumes(p) ==
    /\ ipc = p
    /\ pc[Importer] = "done"
    /\ res[Importer].kind = "return"
    /\ p \in SelectSteps => res[Importer].value = "cursor"

\* An exception leaves import_tautulli_db (nothing in it catches one).
ImportRaise(e) ==
    /\ ipc' = "done"
    /\ import_result' = Raised(e)
    /\ UNCHANGED <<import_db, pre, method, backup, db_validate, session_history_seq, tbl, table_columns,
                   session_history_columns>>
    /\ UNCHANGED <<execVars, dataVars>>

\* `table == 'session_history'` (line 114): `table` is the row of sqlite_master
\* the loop is at, a dict, and a dict never equals a str.
RowEqualsName(row, name) == FALSE

\* What validate_database returns (lines 39-52).
ValidateResults == {"success", "Invalid database specified", "Uncaught exception"}

\* Lines 56-75: the checks; then the backup first, if asked for, or else
\* BEGIN IMMEDIATE starts.
ImportStart ==
    /\ ipc = "idle"
    /\ pc[Importer] \in {"idle", "done"}
    /\ pre' = dest
    /\ \E m \in Methods, v \in ValidateResults :
         /\ method' = m
         /\ db_validate' = v
         /\ IF v # "success" \/ m \notin {"merge", "overwrite"}
            THEN /\ ipc' = "done"
                 /\ import_result' = Returned("False")
                 /\ UNCHANGED <<execVars, dataVars, bakVars>>
            ELSE IF backup
            THEN /\ ipc' = "backup"
                 /\ import_result' = NoResult
                 /\ BackupCall(Importer, FALSE, FALSE)
            ELSE /\ ipc' = "begin"
                 /\ import_result' = NoResult
                 /\ DirectCall(Importer, "BEGIN IMMEDIATE")
                 /\ UNCHANGED bakVars
    /\ UNCHANGED <<import_db, backup, session_history_seq, tbl, table_columns,
                   session_history_columns>>

\* Lines 68-75: make_backup is over: its exception leaves the import, its
\* False makes the import return False, else BEGIN IMMEDIATE starts.
ImportAfterBackup ==
    /\ ipc = "backup"
    /\ mb[Importer].at = "done"
    /\ IF mb[Importer].result.kind = "raise"
       THEN /\ ipc' = "done"
            /\ import_result' = Raised(mb[Importer].result.exc)
            /\ UNCHANGED <<execVars, dataVars>>
       ELSE IF mb[Importer].result = Returned("False")
       THEN /\ ipc' = "done"
            /\ import_result' = Returned("False")
            /\ UNCHANGED <<execVars, dataVars>>
       ELSE /\ ipc' = "begin"
            /\ UNCHANGED import_result
            /\ DirectCall(Importer, "BEGIN IMMEDIATE")
    /\ UNCHANGED <<import_db, pre, method, backup, db_validate, session_history_seq, tbl,
                   table_columns, session_history_columns>>
    /\ UNCHANGED bakVars

\* BEGIN IMMEDIATE ends (the write transaction is the connection's, unless
\* another connection holds it); ATTACH starts.
ImportBeginEnd ==
    /\ ipc = "begin"
    /\ pc[Importer] = "direct"
    /\ IF sqlite_writer \in {0, Importer}
       THEN /\ sqlite_writer' = Importer
            /\ stmt' = [stmt EXCEPT ![Importer] = "ATTACH ? AS import_db"]
            /\ ipc' = "attach"
            /\ UNCHANGED <<pc, res, import_result>>
       ELSE /\ ipc' = "done"
            /\ import_result' = Raised(E_LOCKED)
            /\ pc' = [pc EXCEPT ![Importer] = "done"]
            /\ res' = [res EXCEPT ![Importer] = Raised(E_LOCKED)]
            /\ stmt' = [stmt EXCEPT ![Importer] = "None"]
            /\ UNCHANGED sqlite_writer
    /\ UNCHANGED <<PYTHON2, db_lock, attempts, sql_result, lastOut, log>>
    /\ UNCHANGED dataVars
    /\ UNCHANGED <<import_db, pre, method, backup, db_validate, session_history_seq, tbl, table_columns,
                   session_history_columns>>

\* ATTACH ends; line 79: db.select_single('SELECT seq FROM sqlite_sequence ...').
ImportAttachEnd ==
    /\ ipc = "attach"
    /\ pc[Importer] = "direct"
    /\ ipc' = "seq"
    /\ ActionCall(Importer, Q_SEQ)
    /\ UNCHANGED <<import_db, pre, method, backup, db_validate, session_history_seq, tbl, table_columns,
                   session_history_columns, import_result>>

\* An action() call of import raised, or returned None to select/select_single,
\* whose `.fetchall()` / `.fetchone()` then raises AttributeError.
ImportAbort ==
    /\ ImportRunning
    /\ ipc # "backup"
    /\ pc[Importer] = "done"
    /\ \/ res[Importer].kind = "raise" /\ ImportRaise(res[Importer].exc)
       \/ /\ ipc \in SelectSteps
          /\ res[Importer] = Returned("None")
          /\ ImportRaise(E_ATTRIBUTE)

\* Lines 79-84: select_single's result ({} when there is no row) is assigned;
\* merge creates temp, overwrite goes on to line 93.
ImportAfterSeq ==
    /\ Resumes("seq")
    /\ session_history_seq' = cursor[Importer].seq
    /\ IF method = "merge"
       THEN /\ ipc' = "create_temp"
            /\ ActionCall(Importer, Q_CREATE_TEMP)
            /\ UNCHANGED <<table_columns, session_history_columns>>
       ELSE /\ ipc' = "tables"
            /\ session_history_columns' = <<>>
            /\ table_columns' = <<>>
            /\ ActionCall(Importer, Q_TABLES)
    /\ UNCHANGED <<import_db, pre, method, backup, db_validate, tbl, import_result>>

\* Line 85.
ImportAfterCreateTemp ==
    /\ Resumes("create_temp")
    /\ ipc' = "insert_temp"
    /\ ActionCall(Importer, Q_INSERT_TEMP)
    /\ UNCHANGED <<import_db, pre, method, backup, db_validate, session_history_seq, tbl, table_columns,
                   session_history_columns, import_result>>

\* Line 86: session_history_seq['seq'] is evaluated (KeyError on {}), then the
\* UPDATE is passed to action().
ImportAfterInsertTemp ==
    /\ Resumes("insert_temp")
    /\ IF session_history_seq = -1
       THEN ImportRaise(E_KEY)
       ELSE /\ ipc' = "update_temp"
            /\ ActionCall(Importer, Q_UPDATE_TEMP)
            /\ UNCHANGED <<import_db, pre, method, backup, db_validate, session_history_seq, tbl,
                           table_columns, session_history_columns, import_result>>

\* Lines 89-94.
ImportAfterUpdateTemp ==
    /\ Resumes("update_temp")
    /\ ipc' = "tables"
    /\ session_history_columns' = <<>>
    /\ table_columns' = <<>>
    /\ ActionCall(Importer, Q_TABLES)
    /\ UNCHANGED <<import_db, pre, method, backup, db_validate, session_history_seq, tbl, import_result>>

\* The index of the first table from i on that is not 'sessions' (line 97).
RECURSIVE SkipSessions(_)
SkipSessions(i) ==
    IF i <= Len(Tables) /\ Tables[i] = "sessions" THEN SkipSessions(i + 1) ELSE i

\* `for table in tables:` at index i, up to the loop body's first action()
\* call, or, past the last table, line 121: DETACH starts.
TableLoop(i) ==
    LET j == SkipSessions(i) IN
    /\ tbl' = j
    /\ IF j > Len(Tables)
       THEN /\ ipc' = "detach"
            /\ DirectCall(Importer, "DETACH import_db")
       ELSE IF method = "overwrite"
       THEN /\ ipc' = "delete"
            /\ ActionCall(Importer, DeleteFrom(Tables[j]))
       ELSE /\ ipc' = "columns"
            /\ ActionCall(Importer, TableInfo(Tables[j]))

\* Line 93's select returned the table names.
ImportAfterTables ==
    /\ Resumes("tables")
    /\ TableLoop(1)
    /\ UNCHANGED <<import_db, pre, method, backup, db_validate, session_history_seq, table_columns,
                   session_history_columns, import_result>>

\* Line 106.
ImportAfterDelete ==
    /\ Resumes("delete")
    /\ ipc' = "delete_seq"
    /\ ActionCall(Importer, DeleteSeq(Tables[tbl]))
    /\ UNCHANGED <<import_db, pre, method, backup, db_validate, session_history_seq, tbl, table_columns,
                   session_history_columns, import_result>>

\* Line 109.
ImportAfterDeleteSeq ==
    /\ Resumes("delete_seq")
    /\ ipc' = "columns"
    /\ ActionCall(Importer, TableInfo(Tables[tbl]))
    /\ UNCHANGED <<import_db, pre, method, backup, db_validate, session_history_seq, tbl, table_columns,
                   session_history_columns, import_result>>

\* Lines 110-119: the column list is kept, then the rows are copied.
ImportAfterColumns ==
    /\ Resumes("columns")
    /\ table_columns' = Append(table_columns, Tables[tbl])
    /\ session_history_columns' =
           IF RowEqualsName(Tables[tbl], "session_history")
           THEN <<"reference_id", "content">>
           ELSE session_history_columns
    /\ ipc' = "copy"
    /\ ActionCall(Importer, InsertOrIgnore(Tables[tbl]))
    /\ UNCHANGED <<import_db, pre, method, backup, db_validate, session_history_seq, tbl, import_result>>

\* The copy is done: on to the next table.
ImportAfterCopy ==
    /\ Resumes("copy")
    /\ TableLoop(tbl + 1)
    /\ UNCHANGED <<import_db, pre, method, backup, db_validate, session_history_seq, table_columns,
                   session_history_columns, import_result>>

\* DETACH ends; merge re-indexes (lines 126-127), overwrite goes to line 148.
ImportDetachEnd ==
    /\ ipc = "detach"
    /\ pc[Importer] = "direct"
    /\ IF method = "merge" /\ session_history_seq = -1
       THEN ImportRaise(E_KEY)
       ELSE /\ IF method = "merge"
               THEN ipc' = "reindex" /\ ActionCall(Importer, Q_REINDEX)
               ELSE ipc' = "vacuum" /\ ActionCall(Importer, Q_VACUUM)
            /\ UNCHANGED <<import_db, pre, method, backup, db_validate, session_history_seq, tbl,
                           table_columns, session_history_columns, import_result>>

\* Lines 129-146: after the re-index, `if session_history_columns:` removes the
\* ids to keep from temp; then one DELETE per entry of table_columns; then
\* DROP TABLE temp.
ImportDedup ==
    /\ \/ Resumes("reindex")
       \/ Resumes("keep")
       \/ Resumes("dedup")
    /\ IF ipc = "reindex" /\ session_history_columns # <<>>
       THEN /\ ipc' = "keep"
            /\ ActionCall(Importer, Q_KEEP)
            /\ UNCHANGED tbl
       ELSE LET j == IF ipc = "dedup" THEN tbl + 1 ELSE 1 IN
            /\ tbl' = j
            /\ IF j > Len(table_columns)
               THEN /\ ipc' = "drop_temp"
                    /\ ActionCall(Importer, Q_DROP_TEMP)
               ELSE /\ ipc' = "dedup"
                    /\ ActionCall(Importer, Dedup(table_columns[j]))
    /\ UNCHANGED <<import_db, pre, method, backup, db_validate, session_history_seq, table_columns,
                   session_history_columns, import_result>>

\* Line 148.
ImportAfterDropTemp ==
    /\ Resumes("drop_temp")
    /\ ipc' = "vacuum"
    /\ ActionCall(Importer, Q_VACUUM)
    /\ UNCHANGED <<import_db, pre, method, backup, db_validate, session_history_seq, tbl, table_columns,
                   session_history_columns, import_result>>

\* Line 150: the function ends, returning None.
ImportAfterVacuum ==
    /\ Resumes("vacuum")
    /\ ipc' = "done"
    /\ import_result' = Returned("None")
    /\ UNCHANGED <<import_db, pre, method, backup, db_validate, session_history_seq, tbl, table_columns,
                   session_history_columns>>
    /\ UNCHANGED <<execVars, dataVars>>

\* Another thread reads the live tables through select().
Read(t) ==
    /\ t # Importer
    /\ pc[t] \in {"idle", "done"}
    /\ ActionCall(t, Q_READ)

\* ------------------------------------------------------- specifications
ExecInit ==
    /\ PYTHON2 \in BOOLEAN
    /\ db_lock = 0
    /\ sqlite_writer = 0
    /\ pc = [t \in Threads |-> "idle"]
    /\ stmt = [t \in Threads |-> "None"]
    /\ attempts = [t \in Threads |-> 0]
    /\ sql_result = [t \in Threads |-> "None"]
    /\ res = [t \in Threads |-> NoResult]
    /\ lastOut = [t \in Threads |-> NoOutcome]
    /\ log = [t \in Threads |-> <<>>]

\* The upserted table before any call: no row for the key.
UpsertInit ==
    /\ keyUnique \in BOOLEAN
    /\ rows = <<>>
    /\ total_changes = [t \in Threads |-> 0]
    /\ upc = [t \in Threads |-> "idle"]
    /\ val = [t \in Threads |-> 1]
    /\ changes_before = [t \in Threads |-> 0]
    /\ trans_type = [t \in Threads |-> "update"]
    /\ calls = [t \in Threads |-> 0]
    /\ reports = <<>>
    /\ written = {}
    /\ overlapped = FALSE
    /\ exhausted = FALSE

\* No import: an empty schema and no file to import.
ImportIdle ==
    /\ dest = EmptyDb
    /\ cursor = [t \in Threads |-> NoCursor]
    /\ import_db = [history |-> <<>>, users |-> <<>>]
    /\ pre = EmptyDb
    /\ method = "merge"
    /\ backup = FALSE
    /\ db_validate = ""
    /\ ipc = "idle"
    /\ session_history_seq = -2
    /\ tbl = 0
    /\ table_columns = <<>>
    /\ session_history_columns = <<>>
    /\ import_result = NoResult

\* No backup and no delete_rows_from_table call yet: an empty folder, a sound
\* database.
BackupIdle ==
    /\ clock = (BACKUP_DAYS + 1) * SecondsPerDay
    /\ healthy = TRUE
    /\ files = {}
    /\ NOTIFY_QUEUE = 0
    /\ mb = [t \in Threads |-> NoFrame]
    /\ backups = 0
    /\ dr = [t \in Threads |-> NoDelete]

Init == ExecInit /\ UpsertInit /\ keyUnique /\ ImportIdle /\ BackupIdle

\* The retrying executor under concurrent callers and backups.
Next ==
    \E t \in Threads :
        \/ Query(t) /\ UNCHANGED <<upsVars, delVars, impVars, bakVars>>
        \/ Acquire(t) /\ UNCHANGED <<upsVars, delVars, impVars, bakVars>>
        \/ ExecBegin(t) /\ UNCHANGED <<upsVars, delVars, impVars, bakVars>>
        \/ ExecEnd(t) /\ UNCHANGED <<upsVars, delVars, impVars, bakVars>>
        \/ Sleep(t) /\ UNCHANGED <<upsVars, delVars, impVars, bakVars>>
        \/ LoopExhausted(t) /\ UNCHANGED <<upsVars, delVars, impVars, bakVars>>
        \/ BeginImmediate(t) /\ UNCHANGED <<upsVars, delVars, impVars, bakVars>>
        \/ BeginImmediateEnd(t) /\ UNCHANGED <<upsVars, delVars, impVars, bakVars>>
        \/ CopyFile(t) /\ UNCHANGED <<upsVars, delVars, impVars, bakVars>>
        \/ Rollback(t) /\ UNCHANGED <<upsVars, delVars, impVars, bakVars>>

vars == <<execVars, dataVars, upsVars, impVars, bakVars, delVars>>

Spec == Init /\ [][Next]_vars

\* Callers of upsert on one key of one table.
InitUpsert == ExecInit /\ UpsertInit /\ ImportIdle /\ BackupIdle

NextUpsert ==
    \E t \in Threads :
        \/ UpsertCall(t) /\ UNCHANGED <<impVars, bakVars, delVars>>
        \/ UpsertAfterUpdate(t) /\ UNCHANGED <<impVars, bakVars, delVars>>
        \/ UpsertAfterInsert(t) /\ UNCHANGED <<impVars, bakVars, delVars>>
        \/ Acquire(t) /\ UNCHANGED <<upsVars, delVars, impVars, bakVars>>
        \/ ExecBegin(t) /\ UNCHANGED <<upsVars, delVars, impVars, bakVars>>
        \/ ExecEnd(t) /\ UNCHANGED <<upsVars, delVars, impVars, bakVars>>
        \/ Sleep(t) /\ UNCHANGED <<upsVars, delVars, impVars, bakVars>>
        \/ LoopExhausted(t) /\ UNCHANGED <<upsVars, delVars, impVars, bakVars>>

SpecUpsert == InitUpsert /\ [][NextUpsert]_vars

\* The live database before an import: ids 1..k in both tables, the
\* sqlite_sequence entries at k (or, with no row ever inserted, missing).
DestDatabases ==
    {[history |-> [i \in 1..k |-> [id |-> i, reference_id |-> i, content |-> i]],
      hseq |-> q,
      users |-> [i \in 1..k |-> [id |-> i, content |-> i]],
      useq |-> q,
      tempExists |-> FALSE,
      temp |-> <<>>] : <<k, q>> \in {kq \in (0..MaxDestRows) \X (-1..MaxDestRows) :
                                       kq[2] = kq[1] \/ (kq[1] = 0 /\ kq[2] = -1)}}

\* The files to import: session_history rows with any ids (gaps included), each
\* referencing itself or an earlier row of its group, contents the live tables
\* do not have; users rows that partly coincide with the live ones.
SourceDatabases ==
    {[history |-> [i \in 1..Cardinality(S) |->
                      [id |-> SortedSeq(S)[i],
                       reference_id |-> SortedSeq(S)[g[i]],
                       content |-> 10 + SortedSeq(S)[i]]],
      users |-> [i \in 1..Cardinality(S) |->
                      [id |-> i, content |-> SortedSeq(S)[i]]]] :
        <<S, g>> \in {Sg \in (SUBSET (1..MaxSrcId)) \X [1..MaxSrcRows -> 1..MaxSrcRows] :
                        /\ Cardinality(Sg[1]) \in 1..MaxSrcRows
                        /\ \A i \in 1..MaxSrcRows :
                              IF i <= Cardinality(Sg[1]) THEN Sg[2][i] <= i
                              ELSE Sg[2][i] = 1}}

ImportNotCalled ==
    /\ cursor = [t \in Threads |-> NoCursor]
    /\ pre = dest
    /\ method = "merge"
    /\ db_validate = ""
    /\ ipc = "idle"
    /\ session_history_seq = -2
    /\ tbl = 0
    /\ table_columns = <<>>
    /\ session_history_columns = <<>>
    /\ import_result = NoResult

InitImport ==
    /\ ExecInit /\ UpsertInit /\ keyUnique /\ BackupIdle
    /\ dest \in DestDatabases
    /\ import_db \in SourceDatabases
    /\ backup = FALSE
    /\ ImportNotCalled

\* One import, no other thread at work.
NextImport ==
    \/ ImportStart /\ UNCHANGED <<upsVars, delVars>>
    \/ ImportBeginEnd /\ UNCHANGED <<upsVars, delVars, bakVars>>
    \/ ImportAttachEnd /\ UNCHANGED <<upsVars, delVars, bakVars>>
    \/ ImportAbort /\ UNCHANGED <<upsVars, delVars, bakVars>>
    \/ ImportAfterSeq /\ UNCHANGED <<upsVars, delVars, bakVars>>
    \/ ImportAfterCreateTemp /\ UNCHANGED <<upsVars, delVars, bakVars>>
    \/ ImportAfterInsertTemp /\ UNCHANGED <<upsVars, delVars, bakVars>>
    \/ ImportAfterUpdateTemp /\ UNCHANGED <<upsVars, delVars, bakVars>>
    \/ ImportAfterTables /\ UNCHANGED <<upsVars, delVars, bakVars>>
    \/ ImportAfterDelete /\ UNCHANGED <<upsVars, delVars, bakVars>>
    \/ ImportAfterDeleteSeq /\ UNCHANGED <<upsVars, delVars, bakVars>>
    \/ ImportAfterColumns /\ UNCHANGED <<upsVars, delVars, bakVars>>
    \/ ImportAfterCopy /\ UNCHANGED <<upsVars, delVars, bakVars>>
    \/ ImportDetachEnd /\ UNCHANGED <<upsVars, delVars, bakVars>>
    \/ ImportDedup /\ UNCHANGED <<upsVars, delVars, bakVars>>
    \/ ImportAfterDropTemp /\ UNCHANGED <<upsVars, delVars, bakVars>>
    \/ ImportAfterVacuum /\ UNCHANGED <<upsVars, delVars, bakVars>>
    \/ Acquire(Importer) /\ UNCHANGED <<upsVars, delVars, impVars, bakVars>>
    \/ ExecBegin(Importer) /\ UNCHANGED <<upsVars, delVars, impVars, bakVars>>
    \/ ExecEnd(Importer) /\ UNCHANGED <<upsVars, delVars, impVars, bakVars>>
    \/ Sleep(Importer) /\ UNCHANGED <<upsVars, delVars, impVars, bakVars>>
    \/ LoopExhausted(Importer) /\ UNCHANGED <<upsVars, delVars, impVars, bakVars>>

SpecImport == InitImport /\ [][NextImport]_vars

\* The scenario a reader watches: the fullest live database, and a file whose
\* rows have ids 1..n, all grouped under row 1.
InitImportRead ==
    /\ InitImport
    /\ Len(dest.history) = MaxDestRows
    /\ Len(import_db.history) = MaxSrcRows
    /\ \A i \in DOMAIN import_db.history :
          import_db.history[i].id = i /\ import_db.history[i].reference_id = 1

\* One import, with the other threads reading the live tables meanwhile.
NextImportRead ==
    \/ ImportStart /\ UNCHANGED <<upsVars, delVars>>
    \/ ImportBeginEnd /\ UNCHANGED <<upsVars, delVars, bakVars>>
    \/ ImportAttachEnd /\ UNCHANGED <<upsVars, delVars, bakVars>>
    \/ ImportAbort /\ UNCHANGED <<upsVars, delVars, bakVars>>
    \/ ImportAfterSeq /\ UNCHANGED <<upsVars, delVars, bakVars>>
    \/ ImportAfterCreateTemp /\ UNCHANGED <<upsVars, delVars, bakVars>>
    \/ ImportAfterInsertTemp /\ UNCHANGED <<upsVars, delVars, bakVars>>
    \/ ImportAfterUpdateTemp /\ UNCHANGED <<upsVars, delVars, bakVars>>
    \/ ImportAfterTables /\ UNCHANGED <<upsVars, delVars, bakVars>>
    \/ ImportAfterDelete /\ UNCHANGED <<upsVars, delVars, bakVars>>
    \/ ImportAfterDeleteSeq /\ UNCHANGED <<upsVars, delVars, bakVars>>
    \/ ImportAfterColumns /\ UNCHANGED <<upsVars, delVars, bakVars>>
    \/ ImportAfterCopy /\ UNCHANGED <<upsVars, delVars, bakVars>>
    \/ ImportDetachEnd /\ UNCHANGED <<upsVars, delVars, bakVars>>
    \/ ImportDedup /\ UNCHANGED <<upsVars, delVars, bakVars>>
    \/ ImportAfterDropTemp /\ UNCHANGED <<upsVars, delVars, bakVars>>
    \/ ImportAfterVacuum /\ UNCHANGED <<upsVars, delVars, bakVars>>
    \/ \E t \in Threads :
        \/ Read(t) /\ UNCHANGED <<upsVars, delVars, impVars, bakVars>>
        \/ Acquire(t) /\ UNCHANGED <<upsVars, delVars, impVars, bakVars>>
        \/ ExecBegin(t) /\ UNCHANGED <<upsVars, delVars, impVars, bakVars>>
        \/ ExecEnd(t) /\ UNCHANGED <<upsVars, delVars, impVars, bakVars>>
        \/ Sleep(t) /\ UNCHANGED <<upsVars, delVars, impVars, bakVars>>
        \/ LoopExhausted(t) /\ UNCHANGED <<upsVars, delVars, impVars, bakVars>>

SpecImportRead == InitImportRead /\ [][NextImportRead]_vars

\* import_tautulli_db is called once more, with the same file, after a call
\* that ended with an exception before it copied or cleared any table; a call
\* has its locals afresh.  A call that found rows in temp is not retried.
ImportAgain ==
    /\ ipc = "done"
    /\ import_result.kind = "raise"
    /\ pc[Importer] \in {"idle", "done"}
    /\ pre.temp = <<>>
    /\ [dest EXCEPT !.temp = <<>>, !.tempExists = FALSE]
          = [pre EXCEPT !.temp = <<>>, !.tempExists = FALSE]
    /\ ipc' = "idle"
    /\ import_result' = NoResult
    /\ pre' = dest
    /\ db_validate' = ""
    /\ session_history_seq' = -2
    /\ tbl' = 0
    /\ table_columns' = <<>>
    /\ session_history_columns' = <<>>
    /\ UNCHANGED <<import_db, method, backup>>
    /\ UNCHANGED <<execVars, dataVars>>

\* Imports of one file into the fullest live database, retried when they fail.
InitImportAgain == InitImportRead

NextImportAgain ==
    \/ ImportAgain /\ UNCHANGED <<upsVars, delVars, bakVars>>
    \/ NextImport

SpecImportAgain == InitImportAgain /\ [][NextImportAgain]_vars

\* A caller passes a writing statement to action().
Write(t) ==
    /\ pc[t] \in {"idle", "done"}
    /\ ActionCall(t, "WRITE")

\* action() under concurrent writers (whose statement runs, meets a transient
\* condition or meets a fatal one), each thread running its call on, and
\* db_lock handing itself to every thread that keeps waiting for it.
NextAction ==
    \E t \in Threads :
        \/ Write(t) /\ UNCHANGED <<upsVars, delVars, impVars, bakVars>>
        \/ Acquire(t) /\ UNCHANGED <<upsVars, delVars, impVars, bakVars>>
        \/ ExecBegin(t) /\ UNCHANGED <<upsVars, delVars, impVars, bakVars>>
        \/ ExecEnd(t) /\ UNCHANGED <<upsVars, delVars, impVars, bakVars>>
        \/ Sleep(t) /\ UNCHANGED <<upsVars, delVars, impVars, bakVars>>
        \/ LoopExhausted(t) /\ UNCHANGED <<upsVars, delVars, impVars, bakVars>>

\* A step of thread t's call inside `with db_lock:`.
InsideStep(t) ==
    /\ ExecBegin(t) \/ ExecEnd(t) \/ Sleep(t) \/ LoopExhausted(t)
    /\ UNCHANGED <<upsVars, delVars, impVars, bakVars>>

\* Thread t enters `with db_lock:`.
AcquireStep(t) == Acquire(t) /\ UNCHANGED <<upsVars, delVars, impVars, bakVars>>

SpecActionFair ==
    /\ Init
    /\ [][NextAction]_vars
    /\ \A t \in Threads : WF_vars(InsideStep(t)) /\ SF_vars(AcquireStep(t))

\* The user deletes a file of the backup folder (cf. line 261).
ExternalRemove ==
    /\ \E f \in files : files' = files \ {f}
    /\ UNCHANGED <<clock, healthy, NOTIFY_QUEUE, mb, backups>>
    /\ UNCHANGED <<execVars, dataVars>>

\* An import called with backup=True, of a database sound or not.
InitImportBackup ==
    /\ ExecInit /\ UpsertInit /\ keyUnique
    /\ clock = (BACKUP_DAYS + 1) * SecondsPerDay
    /\ healthy \in BOOLEAN
    /\ files = {}
    /\ NOTIFY_QUEUE = 0
    /\ mb = [t \in Threads |-> NoFrame]
    /\ backups = 0
    /\ dr = [t \in Threads |-> NoDelete]
    /\ dest \in DestDatabases
    /\ Len(dest.history) = MaxDestRows
    /\ import_db \in SourceDatabases
    /\ Len(import_db.history) = MaxSrcRows
    /\ \A i \in DOMAIN import_db.history :
          import_db.history[i].id = i /\ import_db.history[i].reference_id = 1
    /\ backup = TRUE
    /\ ImportNotCalled

NextImportBackup ==
    \/ ImportStart /\ UNCHANGED <<upsVars, delVars>>
    \/ ImportAfterBackup /\ UNCHANGED <<upsVars, delVars>>
    \/ BackupAbort(Importer) /\ UNCHANGED <<upsVars, delVars, impVars>>
    \/ BackupAfterIntegrity(Importer) /\ UNCHANGED <<upsVars, delVars, impVars>>
    \/ BackupBeginEnd(Importer) /\ UNCHANGED <<upsVars, delVars, impVars>>
    \/ BackupCopy(Importer) /\ UNCHANGED <<upsVars, delVars, impVars>>
    \/ BackupCopyFails(Importer) /\ UNCHANGED <<upsVars, delVars, impVars>>
    \/ BackupRollbackEnd(Importer) /\ UNCHANGED <<upsVars, delVars, impVars>>
    \/ BackupReturn(Importer) /\ UNCHANGED <<upsVars, delVars, impVars>>
    \/ ExternalRemove /\ UNCHANGED <<upsVars, delVars, impVars>>
    \/ NextImport

SpecImportBackup == InitImportBackup /\ [][NextImportBackup]_vars

\* The thread that makes the backups.
Scheduler == 1

\* Scheduled backups (make_backup(cleanup=True, scheduler=True)) of a live
\* database from which other threads delete history rows meanwhile.
InitBackupWrite ==
    /\ ExecInit /\ UpsertInit /\ keyUnique /\ BackupIdle
    /\ dest \in DestDatabases
    /\ Len(dest.history) = MaxDestRows
    /\ import_db = [history |-> <<>>, users |-> <<>>]
    /\ backup = FALSE
    /\ ImportNotCalled

NextBackupWrite ==
    \/ BackupCall(Scheduler, TRUE, TRUE) /\ UNCHANGED <<upsVars, delVars, impVars>>
    \/ BackupAbort(Scheduler) /\ UNCHANGED <<upsVars, delVars, impVars>>
    \/ BackupAfterIntegrity(Scheduler) /\ UNCHANGED <<upsVars, delVars, impVars>>
    \/ BackupBeginEnd(Scheduler) /\ UNCHANGED <<upsVars, delVars, impVars>>
    \/ BackupCopy(Scheduler) /\ UNCHANGED <<upsVars, delVars, impVars>>
    \/ BackupCopyFails(Scheduler) /\ UNCHANGED <<upsVars, delVars, impVars>>
    \/ BackupRollbackEnd(Scheduler) /\ UNCHANGED <<upsVars, delVars, impVars>>
    \/ BackupSweep(Scheduler) /\ UNCHANGED <<upsVars, delVars, impVars>>
    \/ BackupReturn(Scheduler) /\ UNCHANGED <<upsVars, delVars, impVars>>
    \/ \E t \in Threads \ {Scheduler} :
        \/ \E ids \in {<<1>>, <<1, 2>>} :
               DeleteCall(t, "session_history", ids, FALSE)
               /\ UNCHANGED <<upsVars, impVars, bakVars>>
        \/ DeleteReturn(t) /\ UNCHANGED <<upsVars, impVars, bakVars>>
    \/ \E t \in Threads :
        \/ Acquire(t) /\ UNCHANGED <<upsVars, delVars, impVars, bakVars>>
        \/ ExecBegin(t) /\ UNCHANGED <<upsVars, delVars, impVars, bakVars>>
        \/ ExecEnd(t) /\ UNCHANGED <<upsVars, delVars, impVars, bakVars>>
        \/ Sleep(t) /\ UNCHANGED <<upsVars, delVars, impVars, bakVars>>
        \/ LoopExhausted(t) /\ UNCHANGED <<upsVars, delVars, impVars, bakVars>>

SpecBackupWrite == InitBackupWrite /\ [][NextBackupWrite]_vars

\* =================================================================== C1..C4
\* A statement of thread t is executing against the database.
Executing(t) == pc[t] \in {"exec", "begin_exec", "rollback_exec", "direct"}

\* Thread t is inside action's retry loop (testing, executing or sleeping).
InRetryLoop(t) == pc[t] \in {"loop", "exec", "sleep"}

\* Number of c.execute() attempts in a call's log.
NumAttempts(l) == Cardinality({i \in 1..Len(l) : l[i] = "attempt"})

\* Attempts and sleeps alternate, starting with an attempt: exactly one sleep
\* lies between each pair of consecutive attempts.
Alternates(l) ==
    \A i \in 1..Len(l) : l[i] = (IF i % 2 = 1 THEN "attempt" ELSE "sleep")

\* C1 (as claimed): at most one statement executes against the database at any
\* moment, and no other caller's statement executes while a caller is inside its
\* retry loop (its backoff sleep included), with import and backup running
\* alongside the other callers.  (The claim adds that a statement executes only
\* while its caller holds db_lock; BEGIN IMMEDIATE never does.)
C1_OneStatementAtATime ==
    \A t \in Threads : \A u \in Threads \ {t} :
        /\ ~(Executing(t) /\ Executing(u))
        /\ InRetryLoop(t) => ~Executing(u)

\* C1 (amended): the statements issued through action() are serialized: such a
\* statement executes only while its caller holds db_lock, at most one of them
\* executes at any moment, and none executes while another caller is inside its
\* retry loop, its backoff sleep included.  (BEGIN IMMEDIATE and rollback, which
\* import and backup issue on the connection directly, are outside this.)
C1_ActionStatementsSerialized ==
    \A t \in Threads :
        /\ pc[t] = "exec" => db_lock = t
        /\ InRetryLoop(t) =>
              (db_lock = t /\ \A u \in Threads \ {t} : pc[u] # "exec" /\ ~InRetryLoop(u))

\* C1 witness: one caller sleeps in its backoff while another caller is blocked
\* on db_lock and a third party's BEGIN IMMEDIATE is not involved.
C1_Witness ==
    \E t, u \in Threads : t # u /\ pc[t] = "sleep" /\ pc[u] = "acquire" /\ db_lock = t

\* C2: a call whose every attempt failed with a transient condition ends by
\* raising (the last transient error); it never returns normally to the caller.
\* (A finished call whose last attempt was transient had only transient
\* attempts: any other outcome ends the call.)
C2_TransientExhaustionRaises ==
    \A t \in Threads :
        (pc[t] = "done" /\ IsTransient(lastOut[t])) => res[t].kind = "raise"

\* C3: a call whose every attempt failed transiently made exactly 5 attempts with
\* a sleep between each pair of consecutive attempts; a call that succeeded on
\* attempt k made exactly k attempts, the successful one last.
C3_RetryCeiling ==
    \A t \in Threads :
        /\ (pc[t] = "done" /\ IsTransient(lastOut[t])) =>
              (NumAttempts(log[t]) = MaxAttempts /\ Alternates(log[t]))
        /\ (pc[t] = "done" /\ lastOut[t] = OK) =>
              /\ NumAttempts(log[t]) \in 1..MaxAttempts
              /\ Alternates(log[t])
              /\ log[t][Len(log[t])] = "attempt"

\* C4: a database error that is not transient is raised to the caller by the
\* attempt that met it: no attempt and no sleep follows it, a statement that met
\* it on its first attempt incurred no sleep at all, and the lock is released.
C4_FatalRaisedAtOnce ==
    \A t \in Threads :
        (pc[t] = "done" /\ lastOut[t] \in {E_SYNTAX, E_INTEGRITY, E_FULL}) =>
            /\ res[t] = Raised(lastOut[t])
            /\ log[t][Len(log[t])] = "attempt"
            /\ (NumAttempts(log[t]) = 1 => log[t] = <<"attempt">>)
            /\ db_lock # t

\* What does hold of a non-transient error on every interpreter: the call ends
\* with an exception at that attempt, unretried and unslept, lock released.
FatalEndsCallAtOnce ==
    \A t \in Threads :
        (pc[t] = "done" /\ lastOut[t] \in {E_SYNTAX, E_INTEGRITY, E_FULL}) =>
            /\ res[t].kind = "raise"
            /\ log[t][Len(log[t])] = "attempt"
            /\ db_lock # t

\* =================================================================== C5, C6
\* No upsert call is in progress.
UpsertQuiescent == \A t \in Threads : ~UpsertBusy(t)

NoneRaised == \A i \in 1..Len(reports) : reports[i] # "raise"

\* The first finished call reported 'insert', every later one 'update', and once
\* the calls are over the key has exactly one row.
InsertThenUpdates ==
    /\ \A i \in 1..Len(reports) : reports[i] = (IF i = 1 THEN "insert" ELSE "update")
    /\ (UpsertQuiescent /\ Len(reports) >= 1) => Len(rows) = 1

\* C5: starting from no row for the key, upsert calls made one after the other
\* with the same key and value fields (and returning to their callers) leave
\* exactly one row for the key; the first reports 'insert', the others 'update'.
C5_UpsertIdempotent ==
    (~overlapped /\ Cardinality(written) = 1 /\ NoneRaised) => InsertThenUpdates

\* What holds of the sequential calls: the same, as long as no statement of
\* theirs used up its 5 attempts.
UpsertIdempotentWhenExecuted ==
    (~overlapped /\ Cardinality(written) = 1 /\ NoneRaised /\ ~exhausted)
        => InsertThenUpdates

\* C6: with a unique key and any interleaving of concurrent upsert callers, an
\* IntegrityError of the fallback INSERT never leaves upsert, and once the calls
\* are over (all having returned, some having overlapped) the key has exactly
\* one row, holding the value fields one of the callers passed.
C6_ConcurrentUpsertOneRow ==
    keyUnique =>
        /\ \A t \in Threads :
              upc[t] = "raised" => res[t].exc.cls # "IntegrityError"
        /\ (UpsertQuiescent /\ overlapped /\ NoneRaised) =>
              (Len(rows) = 1 /\ rows[1] \in written)

\* What holds of the concurrent calls: the same, as long as no statement of
\* theirs used up its 5 attempts.
ConcurrentUpsertOneRowWhenExecuted ==
    (keyUnique /\ ~exhausted) =>
        /\ \A t \in Threads :
              upc[t] = "raised" => res[t].exc.cls # "IntegrityError"
        /\ (UpsertQuiescent /\ Len(reports) >= 1 /\ NoneRaised) =>
              (Len(rows) = 1 /\ rows[1] \in written)

\* ================================================================== C7..C10
\* import_tautulli_db ended with an exception after a statement of its own
\* failed / by running to its last line.
ImportFailed ==
    /\ ipc = "done"
    /\ import_result.kind = "raise"
    /\ lastOut[Importer] \notin {OK, NoOutcome}
ImportCompleted == ipc = "done" /\ import_result = Returned("None")

\* C7: if a statement of the import fails at any step (the import ends with an
\* exception), the live database is exactly what it was before the import
\* started: no cleared table, no copied row, no leftover table temp.
C7_ImportAtomic ==
    ImportFailed => dest = pre

\* What does hold of a failed import: the rows the live tables had before a
\* merge are all still there.
FailedMergeKeepsOldRows ==
    (ImportFailed /\ method = "merge") =>
        /\ SubSeq(dest.history, 1, Len(pre.history)) = pre.history
        /\ SubSeq(dest.users, 1, Len(pre.users)) = pre.users

\* C8: what another thread read from the live tables while an import was in
\* progress is either the complete contents from before the import or the
\* complete contents the import ended with.
C8_NoIntermediateRead ==
    \A t \in Threads \ {Importer} :
        (ImportCompleted /\ cursor[t].during) => cursor[t].db \in {pre, dest}

\* The position in the imported file's session_history of the row with this id.
SourceIndex(id) ==
    CHOOSE i \in DOMAIN import_db.history : import_db.history[i].id = id

\* C9: a merge into a live session_history with ids 1..k (seq = k) of a file
\* with n rows, none a duplicate of a live row, ends with k+n rows, ids
\* 1..k+n, and each imported row references the id its group's row was given.
C9_MergeRenumbers ==
    (ImportCompleted /\ method = "merge") =>
        LET k == Len(pre.history)
            n == Len(import_db.history)
        IN /\ Len(dest.history) = k + n
           /\ \A i \in 1..(k + n) : dest.history[i].id = i
           /\ \A i \in 1..n :
                 dest.history[k + i].reference_id =
                     k + SourceIndex(import_db.history[i].reference_id)

\* What a completed merge does leave in session_history: none of the imported
\* rows; the ids they were given are used up.
MergeDropsImportedHistory ==
    (ImportCompleted /\ method = "merge" /\ ~PYTHON2) =>
        /\ dest.history = pre.history
        /\ dest.hseq = pre.hseq + Len(import_db.history)

\* The rows of s carry ids 1..Len(s).
FreshIds(s) == \A i \in DOMAIN s : s[i].id = i

\* C10: an overwrite import ends with each imported table holding exactly the
\* file's rows, whatever it held before: the file's non-key content, in the
\* file's order, under fresh ids from 1.
C10_OverwriteReplaces ==
    (ImportCompleted /\ method = "overwrite") =>
        /\ Len(dest.history) = Len(import_db.history)
        /\ FreshIds(dest.history)
        /\ \A i \in DOMAIN dest.history :
              /\ dest.history[i].content = import_db.history[i].content
              /\ dest.history[i].reference_id = import_db.history[i].reference_id
        /\ Len(dest.users) = Len(import_db.users)
        /\ FreshIds(dest.users)
        /\ \A i \in DOMAIN dest.users :
              dest.users[i].content = import_db.users[i].content

\* What holds of an overwrite import: the same, on the interpreter under which
\* no statement can use up its 5 attempts and be passed over.
OverwriteReplacesUnlessSkipped ==
    ~PYTHON2 => C10_OverwriteReplaces

\* make_backup alone, manual or scheduled, with or without cleanup, of a
\* database sound or not, in a folder that holds earlier backups whose
\* modification times lie just before, at and just after the cutoff.
Cutoff0 == SecondsPerDay

OldBackups ==
    {[name |-> BackupName(m, "", s), mtime |-> m,
      content |-> [first |-> EmptyDb, last |-> EmptyDb]] :
        m \in {Cutoff0 - 1, Cutoff0, Cutoff0 + 1}, s \in BOOLEAN}

BackupFolder ==
    /\ ExecInit /\ UpsertInit /\ keyUnique
    /\ dest = EmptyDb
    /\ import_db = [history |-> <<>>, users |-> <<>>]
    /\ backup = FALSE
    /\ ImportNotCalled
    /\ clock = (BACKUP_DAYS + 1) * SecondsPerDay
    /\ healthy \in BOOLEAN
    /\ files \in {fs \in SUBSET OldBackups : Cardinality(fs) <= MaxOldFiles}
    /\ NOTIFY_QUEUE = 0
    /\ mb = [t \in Threads |-> NoFrame]
    /\ dr = [t \in Threads |-> NoDelete]

InitBackup == BackupFolder /\ backups = 0

NextBackup ==
    \/ \E cl, sc \in BOOLEAN :
           BackupCall(Scheduler, cl, sc) /\ UNCHANGED <<upsVars, delVars, impVars>>
    \/ BackupAbort(Scheduler) /\ UNCHANGED <<upsVars, delVars, impVars>>
    \/ BackupAfterIntegrity(Scheduler) /\ UNCHANGED <<upsVars, delVars, impVars>>
    \/ BackupBeginEnd(Scheduler) /\ UNCHANGED <<upsVars, delVars, impVars>>
    \/ BackupCopy(Scheduler) /\ UNCHANGED <<upsVars, delVars, impVars>>
    \/ BackupCopyFails(Scheduler) /\ UNCHANGED <<upsVars, delVars, impVars>>
    \/ BackupRollbackEnd(Scheduler) /\ UNCHANGED <<upsVars, delVars, impVars>>
    \/ BackupSweep(Scheduler) /\ UNCHANGED <<upsVars, delVars, impVars>>
    \/ BackupReturn(Scheduler) /\ UNCHANGED <<upsVars, delVars, impVars>>
    \/ Tick /\ UNCHANGED <<upsVars, delVars, impVars>>
    \/ ExternalRemove /\ UNCHANGED <<upsVars, delVars, impVars>>
    \/ Acquire(Scheduler) /\ UNCHANGED <<upsVars, delVars, impVars, bakVars>>
    \/ ExecBegin(Scheduler) /\ UNCHANGED <<upsVars, delVars, impVars, bakVars>>
    \/ ExecEnd(Scheduler) /\ UNCHANGED <<upsVars, delVars, impVars, bakVars>>
    \/ Sleep(Scheduler) /\ UNCHANGED <<upsVars, delVars, impVars, bakVars>>
    \/ LoopExhausted(Scheduler) /\ UNCHANGED <<upsVars, delVars, impVars, bakVars>>

SpecBackup == InitBackup /\ [][NextBackup]_vars

\* One make_backup call into such a folder.
InitSweep == BackupFolder /\ backups = MaxBackups - 1

SpecSweep == InitSweep /\ [][NextBackup]_vars

\* delete_rows_from_table called by one thread, on either table, with ids
\* given as a list or as text.
Deleter == 1

InitDelete ==
    /\ ExecInit /\ UpsertInit /\ keyUnique /\ BackupIdle
    /\ dest \in DestDatabases
    /\ import_db = [history |-> <<>>, users |-> <<>>]
    /\ backup = FALSE
    /\ ImportNotCalled

NextDelete ==
    \/ \E table \in {"session_history", "users"}, ids \in IdLists, as_text \in BOOLEAN :
           DeleteCall(Deleter, table, ids, as_text)
           /\ UNCHANGED <<upsVars, impVars, bakVars>>
    \/ DeleteReturn(Deleter) /\ UNCHANGED <<upsVars, impVars, bakVars>>
    \/ Acquire(Deleter) /\ UNCHANGED <<upsVars, delVars, impVars, bakVars>>
    \/ ExecBegin(Deleter) /\ UNCHANGED <<upsVars, delVars, impVars, bakVars>>
    \/ ExecEnd(Deleter) /\ UNCHANGED <<upsVars, delVars, impVars, bakVars>>
    \/ Sleep(Deleter) /\ UNCHANGED <<upsVars, delVars, impVars, bakVars>>
    \/ LoopExhausted(Deleter) /\ UNCHANGED <<upsVars, delVars, impVars, bakVars>>

SpecDelete == InitDelete /\ [][NextDelete]_vars

\* ====================================================================== C11
\* import_tautulli_db got past its first line.
ImportCalled == ipc # "idle"

\* import_tautulli_db returned False and no statement changed the live database.
ImportRefused ==
    /\ ipc = "done"
    /\ import_result = Returned("False")
    /\ dest = pre

\* make_backup, called by the import, ended without succeeding.
ImportBackupFailed ==
    /\ ImportCalled
    /\ ipc # "backup"
    /\ backups > 0
    /\ mb[Importer].at = "done"
    /\ mb[Importer].result # Returned("True")

\* C11: an import whose file does not open validly, or whose mode is not
\* 'merge'/'overwrite', or whose backup was asked for and did not succeed,
\* returns False with the live database unchanged; a file or a mode that fails
\* its check never triggers a backup.
C11_ImportPreconditions ==
    /\ (ImportCalled /\ db_validate # "success") => (ImportRefused /\ backups = 0)
    /\ (ImportCalled /\ method \notin {"merge", "overwrite"}) =>
           (ImportRefused /\ backups = 0)
    /\ ImportBackupFailed => ImportRefused

\* What does hold when the backup does not succeed: the import ends there, by
\* returning False if make_backup returned False and with make_backup's
\* exception if it raised, the live database unchanged either way.
FailedBackupEndsImport ==
    ImportBackupFailed =>
        /\ ipc = "done"
        /\ dest = pre
        /\ import_result = (IF mb[Importer].result.kind = "raise"
                            THEN mb[Importer].result
                            ELSE Returned("False"))

\* ====================================================================== C12
\* The rows a finished delete_rows_from_table call named are gone from its table.
Deleted(t) ==
    LET ids == {dr[t].row_ids[i] : i \in DOMAIN dr[t].row_ids}
        s == IF dr[t].table = "session_history" THEN dest.history ELSE dest.users
    IN Ids(s) \cap ids = {}

\* A backup holds the write transaction it opened with BEGIN IMMEDIATE.
BackupInProgress == \E b \in Threads : mb[b].at \in {"copy", "rollback"}

\* C12: the file a backup copied holds a single committed state of the
\* database (what it read first and what it read last are the same contents),
\* and a delete issued by another caller while the backup held its transaction
\* is, once the caller has its answer, either applied or was reported as failed
\* (False): it is never reported done with the rows still there.
C12_BackupSnapshot ==
    /\ \A f \in files, b \in Threads :
          (mb[b].at \in {"rollback", "sweep", "listing"} /\ f.name = mb[b].backup_file)
              => f.content.first = f.content.last
    /\ \A t \in Threads :
          (dr[t].at = "done" /\ dr[t].during /\ dr[t].result = Returned("True"))
              => Deleted(t)

\* What does hold of a backup: from the end of its BEGIN IMMEDIATE to the end
\* of its rollback no statement changes the database, its own or another
\* caller's, so the copy is of one committed state.
BackupFreezesDatabase ==
    [][BackupInProgress => dest' = dest]_vars

\* ====================================================================== C13
\* The step at which shutil.copyfile of thread t ends (line 267).
BackupCopied(t) == mb[t].at = "copy" /\ mb'[t].at = "rollback"

\* The step at which make_backup of thread t returns (lines 283-288).
BackupReturns(t) ==
    mb[t].at # "done" /\ mb'[t].at = "done" /\ mb'[t].result.kind = "return"

\* C13: the copy of a make_backup call adds exactly one name to the folder, the
\* name it composed; that name carries '.corrupt' exactly when the database
\* is unsound and '.sched' exactly when the scheduler asked; the call puts no
\* notification for a sound database and exactly one for an unsound one; and
\* it returns True exactly when its file is in the folder's listing.
C13_BackupNaming ==
    [][\A t \in Threads :
          /\ BackupCopied(t) =>
                /\ Listing(files') \ Listing(files) = {mb[t].backup_file}
                /\ mb[t].backup_file.corrupt = (IF healthy THEN "" ELSE ".corrupt")
                /\ mb[t].backup_file.sched = mb[t].scheduler
          /\ BackupReturns(t) =>
                /\ NOTIFY_QUEUE' - mb[t].before.queued = (IF healthy THEN 0 ELSE 1)
                /\ (mb'[t].result = Returned("True"))
                       <=> (mb[t].backup_file \in Listing(files'))]_vars

\* What does hold: the same with "the file is in the folder after the copy"
\* in place of "exactly one name is new".
BackupTagsAndReturn ==
    [][\A t \in Threads :
          /\ BackupCopied(t) =>
                /\ mb[t].backup_file \in Listing(files')
                /\ Listing(files') \ Listing(files) \subseteq {mb[t].backup_file}
                /\ mb[t].backup_file.corrupt = (IF healthy THEN "" ELSE ".corrupt")
                /\ mb[t].backup_file.sched = mb[t].scheduler
          /\ BackupReturns(t) =>
                /\ NOTIFY_QUEUE' - mb[t].before.queued = (IF healthy THEN 0 ELSE 1)
                /\ (mb'[t].result = Returned("True"))
                       <=> (mb[t].backup_file \in Listing(files'))]_vars

RowIds(t) == {dr[t].row_ids[i] : i \in DOMAIN dr[t].row_ids}

TableOf(d, table) == IF table = "session_history" THEN d.history ELSE d.users

OtherTableOf(d, table) == IF table = "session_history" THEN d.users ELSE d.history

\* The rows of the table that the call did not name are as they were, in the
\* same order, and the other table and both sequence entries are as they were.
DeleteKeepsOtherRows(t) ==
    LET NotNamed(r) == r.id \notin RowIds(t) IN
    /\ SelectSeq(TableOf(dest, dr[t].table), NotNamed)
          = SelectSeq(TableOf(dr[t].before, dr[t].table), NotNamed)
    /\ OtherTableOf(dest, dr[t].table) = OtherTableOf(dr[t].before, dr[t].table)
    /\ dest.hseq = dr[t].before.hseq /\ dest.useq = dr[t].before.useq

\* C15: when delete_rows_from_table has returned True, the table holds none of
\* the listed ids and every other row, the other table included, is as
\* before the call (a listed id the table never had changes nothing); with an
\* empty list no statement was issued and True was returned.
C15_DeleteRows ==
    \A t \in Threads :
        dr[t].at = "done" =>
            /\ dr[t].result = Returned("True") =>
                  /\ Ids(TableOf(dest, dr[t].table)) \cap RowIds(t) = {}
                  /\ DeleteKeepsOtherRows(t)
            /\ dr[t].row_ids = <<>> =>
                  (~dr[t].issued /\ dr[t].result = Returned("True"))

\* What does hold: the call never touches a row it did not name, an empty list
\* issues nothing and returns True, and the named rows are gone whenever the
\* DELETE was executed.
DeleteRowsWhenExecuted ==
    \A t \in Threads :
        dr[t].at = "done" =>
            /\ DeleteKeepsOtherRows(t)
            /\ (dr[t].issued /\ res[t] = Returned("cursor")) =>
                  (/\ dr[t].result = Returned("True")
                   /\ Ids(TableOf(dest, dr[t].table)) \cap RowIds(t) = {})
            /\ dr[t].row_ids = <<>> =>
                  (~dr[t].issued /\ dr[t].result = Returned("True"))

\* ====================================================================== C16
\* The entries of temp whose old_id is id.
EntriesOf(id) == {i \in DOMAIN dest.temp : dest.temp[i].old_id = id}

\* The re-indexing UPDATE (lines 126-127) is about to be executed.
MapConsulted == ipc = "reindex" /\ pc[Importer] \notin {"idle", "done"}

\* C16: when a merge import's re-indexing UPDATE reads temp, temp has exactly
\* one entry for each id of the file's session_history and no other entry,
\* whatever imports were made before.
C16_ReindexMapExact ==
    MapConsulted =>
        /\ \A id \in Ids(import_db.history) : Cardinality(EntriesOf(id)) = 1
        /\ Len(dest.temp) = Len(import_db.history)

\* What does hold: in an import that found no temp table left behind and whose
\* INSERT INTO temp was executed, the map is exact.
FirstImportMapExact ==
    (MapConsulted /\ ~pre.tempExists /\ dest.temp # <<>>) =>
        /\ \A id \in Ids(import_db.history) : Cardinality(EntriesOf(id)) = 1
        /\ Len(dest.temp) = Len(import_db.history)

\* ====================================================================== C17
\* `UPDATE temp SET new_id = id + ?` (line 86) has been executed.
MapComputed ==
    ipc = "update_temp" /\ pc[Importer] = "done" /\ res[Importer] = Returned("cursor")

\* C17 as stated: each entry's new_id is its old_id plus the sqlite_sequence
\* value session_history had before the import, and is above every id the
\* live session_history had.
C17_NewIdFromOldId ==
    MapComputed =>
        \A i \in DOMAIN dest.temp :
            /\ dest.temp[i].new_id = dest.temp[i].old_id + pre.hseq
            /\ \A h \in Ids(pre.history) : dest.temp[i].new_id > h

\* C17, amended: each entry's new_id is the entry's own rowid in temp (1, 2, ...
\* in the order the source ids were inserted) plus the sqlite_sequence value
\* session_history had before the import, and is above every id the live
\* session_history had.
C17_NewIdFromRowid ==
    MapComputed =>
        \A i \in DOMAIN dest.temp :
            /\ dest.temp[i].new_id = dest.temp[i].id + pre.hseq
            /\ \A h \in Ids(pre.history) : dest.temp[i].new_id > h

\* The map of a file whose ids have a gap has been computed over a live table
\* that has rows.
C17_Witness ==
    /\ MapComputed
    /\ pre.history # <<>>
    /\ \E i \in DOMAIN dest.temp : dest.temp[i].old_id # dest.temp[i].id

\* ====================================================================== C18
\* C18: a call to action() makes at most 5 attempts; whenever a thread is not
\* inside `with db_lock:` (it has not entered it, or its call has returned or
\* raised) it does not hold the lock; every call that waits for the lock
\* gets it, and every call ends.
C18_ActionTerminates ==
    /\ [](\A t \in Threads :
            /\ NumAttempts(log[t]) <= MaxAttempts
            /\ attempts[t] <= MaxAttempts
            /\ (~InRetryLoop(t)) => db_lock # t)
    /\ \A t \in Threads : (pc[t] = "acquire") ~> (db_lock = t)
    /\ \A t \in Threads : (pc[t] = "acquire") ~> (pc[t] = "done")

\* A caller waits for the lock while its holder has used up its 5 attempts and
\* is about to leave.
C18_Witness ==
    \E t, u \in Threads :
        /\ t # u
        /\ pc[t] = "acquire"
        /\ db_lock = u /\ pc[u] = "loop" /\ attempts[u] = MaxAttempts
        /\ NumAttempts(log[u]) = MaxAttempts

\* ====================================================================== C19
\* The step by which upsert of thread t goes on from its UPDATE to its INSERT.
FallsBackToInsert(t) == upc[t] = "update" /\ upc'[t] = "insert"

\* C19: upsert goes on to its INSERT (and to reporting 'insert') only when its
\* UPDATE was executed (action() returned the cursor) and changed no row; not
\* when the UPDATE used up its attempts without ever executing.
C19_InsertOnlyAfterUpdateRan ==
    [][\A t \in Threads :
          FallsBackToInsert(t) =>
              /\ res[t] = Returned("cursor")
              /\ total_changes[t] = changes_before[t]]_vars

\* What does hold: upsert goes on to its INSERT only when total_changes is what
\* it was before the UPDATE, and never after an UPDATE that raised.
InsertOnlyWhenNoChange ==
    [][\A t \in Threads :
          FallsBackToInsert(t) =>
              /\ res[t].kind # "raise"
              /\ total_changes[t] = changes_before[t]]_vars

\* ====================================================================== C20
\* A merge into a database whose sqlite_sequence has no session_history row
\* has ended.
MergeIntoUnusedEnded == ipc = "done" /\ method = "merge" /\ pre.hseq = -1

\* C20: a merge into a database whose session_history never held a row ends
\* with an exception only if one of its statements failed; when it completes,
\* session_history holds the file's rows under ids 1..n, each referencing the
\* id its group's row was given (a high-water mark of 0).
C20_MergeIntoUnused ==
    MergeIntoUnusedEnded =>
        /\ import_result.kind = "raise" => ImportFailed
        /\ ImportCompleted =>
              LET n == Len(import_db.history) IN
              /\ Len(dest.history) = n
              /\ \A i \in 1..n :
                    /\ dest.history[i].id = i
                    /\ dest.history[i].reference_id =
                          SourceIndex(import_db.history[i].reference_id)

\* What does hold: such a merge never completes.
MergeIntoUnusedNeverCompletes == ~(MergeIntoUnusedEnded /\ ImportCompleted)

====
